---- MODULE Spec2Model ----
(***************************************************************************)
(* A model of tree.hh (src/src/tree.hh), the STL-like n-ary tree container, *)
(* built with TREE_HH_EXTRA (the header defines it itself, lines 38-46).    *)
(*                                                                         *)
(* The heap is a function from node addresses to tree_node_ records.  Two  *)
(* tree objects exist: tree 1 ("this") and tree 2 ("other", the tree that  *)
(* move_out returns, copy-assignment fills and move_in consumes).  Each    *)
(* owns a head and a feet sentinel.  Every member function is one action:  *)
(* the sequence of pointer assignments of its body, applied in order.      *)
(*                                                                         *)
(* size_t counters are kept as integers; a value below zero stands for the *)
(* wrapped value 2^64 + v, which no small natural number equals.           *)
(***************************************************************************)
EXTENDS Integers, Sequences, FiniteSets, TLC

\* ---------------------------------------------------------------- bounds
MaxNodes == 3
MaxVal == 2

\* ---------------------------------------------------------------- addresses
NULL == 0
Trees == {1, 2}
head(t) == 2 * t - 1
feet(t) == 2 * t
Sentinels == {head(t) : t \in Trees} \cup {feet(t) : t \in Trees}
FirstData == 5
\* Addresses for MaxNodes nodes, for a copy of them, and for the one node that
\* replace allocates before it frees the node it replaces.
PoolSize == 2 * MaxNodes + 1
DataIds == FirstData .. (FirstData + PoolSize - 1)
Ids == Sentinels \cup DataIds
Values == 1 .. MaxVal
\* value_type(): the value-initialised T that dummy nodes carry
DefaultValue == 0
\* Marker written in the null record when the code writes through a null pointer.
SEGV == -1
\* What a call returns when it throws std::range_error instead of returning a node.
RANGE_ERROR == -2

VARIABLES heap, live, last, selection, multiple_selection
vars == <<heap, live, last, selection, multiple_selection>>

\* tree_node_(): all links null, count zero.  Of the TREE_HH_EXTRA fields the record
\* keeps count; expanded, visible and count_expanded are added by ExtraNode in the
\* specification that follows them.
tree_node_ == [parent |-> NULL, first_child |-> NULL, last_child |-> NULL,
               prev_sibling |-> NULL, next_sibling |-> NULL, data |-> DefaultValue,
               count |-> 0]

\* p->f = v.  A write through a null pointer is recorded in the null record.
Set(h, n, f, v) ==
  IF n = NULL THEN [h EXCEPT ![NULL].data = SEGV] ELSE [h EXCEPT ![n][f] = v]

Faulted(h) == h[NULL].data = SEGV

\* F applied to the value v: a local name for an intermediate result of a body
Bind(v, F(_)) == F(v)

\* alloc_.allocate + construct: the lowest free address, holding value x
NewAddr(lv) == CHOOSE n \in DataIds \ lv : \A m \in DataIds \ lv : n <= m

Alloc(m, x) ==
  LET tmp == NewAddr(m.live)
  IN [h |-> [m.h EXCEPT ![tmp] = [tree_node_ EXCEPT !.data = x]],
      live |-> m.live \cup {tmp}, ret |-> tmp]

\* alloc_.destroy + deallocate
Free(m, n) ==
  [h |-> [m.h EXCEPT ![n] = tree_node_], live |-> m.live \ {n}, ret |-> m.ret]

With(m, h) == [h |-> h, live |-> m.live, ret |-> m.ret]
Ret(m, r) == [h |-> m.h, live |-> m.live, ret |-> r]

\* head_initialise_ for tree t
head_initialise_(h, t) ==
  [h EXCEPT ![head(t)] = [tree_node_ EXCEPT !.next_sibling = feet(t)],
            ![feet(t)] = [tree_node_ EXCEPT !.prev_sibling = head(t)]]

\* ---------------------------------------------------------------- iterators
\* operator++ without the climb: the next sibling or null
ClimbNextStaysBelow(h, n) == h[n].next_sibling

RECURSIVE ClimbNext(_, _)
\* the loop of pre_order_iterator::operator++: climb while there is no next sibling
ClimbNext(h, n) ==
  IF h[n].next_sibling # NULL THEN h[n].next_sibling
  ELSE IF h[n].parent = NULL THEN NULL
  ELSE ClimbNext(h, h[n].parent)

\* pre_order_iterator::operator++ (skip = skip_current_children_)
PreNext(h, n, skip) ==
  IF ~skip /\ h[n].first_child # NULL THEN h[n].first_child ELSE ClimbNext(h, n)

\* tree::begin / tree::end
Begin(h, t) == h[head(t)].next_sibling
End(t) == feet(t)

RECURSIVE PreOrderFrom(_, _, _, _)
\* the nodes visited by  for (it = n; it != stop; ++it), at most fuel of them
PreOrderFrom(h, n, stop, fuel) ==
  IF n = stop \/ n = NULL \/ fuel = 0 THEN <<>>
  ELSE <<n>> \o PreOrderFrom(h, PreNext(h, n, FALSE), stop, fuel - 1)

Fuel == Cardinality(Ids) + 1

\* begin() .. end() of tree t
PreOrder(h, t) == PreOrderFrom(h, Begin(h, t), End(t), Fuel)

\* tree::size(): head->count
Size(h, t) == h[head(t)].count

\* tree::size(const iterator_base&) and count(const iterator_base&)
SizeAt(h, n) == h[n].count

\* ---------------------------------------------------------------- structure
Range(s) == {s[i] : i \in 1 .. Len(s)}

RECURSIVE ChainFrom(_, _, _)
\* the nodes met following next_sibling from n (n included), at most fuel of them
ChainFrom(h, n, fuel) ==
  IF n = NULL \/ fuel = 0 THEN <<>>
  ELSE <<n>> \o ChainFrom(h, h[n].next_sibling, fuel - 1)

Children(h, n) == ChainFrom(h, h[n].first_child, Fuel)

\* the root chain of tree t: what lies between head and feet
Roots(h, t) ==
  LET c == ChainFrom(h, h[head(t)].next_sibling, Fuel)
  IN SelectSeq(c, LAMBDA x : x \notin Sentinels)

RECURSIVE Ancestors(_, _, _)
Ancestors(h, n, fuel) ==
  IF n = NULL \/ fuel = 0 \/ h[n].parent = NULL THEN {}
  ELSE {h[n].parent} \cup Ancestors(h, h[n].parent, fuel - 1)

AncOrSelf(h, n) == {n} \cup Ancestors(h, n, Fuel)

\* the nodes of the subtree rooted at n, by parent links
Subtree(h, lv, n) == {x \in lv : n \in AncOrSelf(h, x)}

RECURSIVE Below(_, _, _)
\* n and everything under it, by first_child / next_sibling descent
Below(h, n, fuel) ==
  IF fuel = 0 THEN {n}
  ELSE {n} \cup UNION {Below(h, c, fuel - 1) : c \in Range(Children(h, n))}

\* the nodes reachable from the head of tree t
Reach(h, t) == UNION {Below(h, r, Fuel) : r \in Range(Roots(h, t))}

\* the strict descendants of n
Desc(h, n) == Below(h, n, Fuel) \ {n}

\* ---------------------------------------------------------------- bookkeeping
RECURSIVE IncLoop(_, _)
\* the while (parent) loop that follows every counted insertion:  ++parent->count
IncLoop(h, p) ==
  IF p = NULL THEN h
  ELSE IncLoop([h EXCEPT ![p].count = @ + 1], h[p].parent)

\* the TREE_HH_EXTRA block of insert / append_child: one more node under tmp->parent
IncCounts(h, t, tmp) ==
  [IncLoop(h, h[tmp].parent) EXCEPT ![head(t)].count = @ + 1]

RECURSIVE SubLoop(_, _, _)
\* the while (parent) loop of erase_children:  parent->count -= it.node->count
SubLoop(h, p, n) ==
  IF p = NULL THEN h
  ELSE SubLoop([h EXCEPT ![p].count = @ - h[n].count], h[p].parent, n)

\* the TREE_HH_EXTRA block of erase_children
SubCounts(h, t, n) ==
  [SubLoop(h, h[n].parent, n) EXCEPT ![head(t)].count = @ - h[n].count]

RECURSIVE DecLoop(_, _, _)
\* the while (parent) loop of erase:  --parent->count -= it.node->count
DecLoop(h, p, n) ==
  IF p = NULL THEN h
  ELSE DecLoop([h EXCEPT ![p].count = (@ - 1) - h[n].count], h[p].parent, n)

\* erase's block without the decrement: the erased node itself is not counted
DecCountsWithoutNode(h, t, n) == SubCounts(h, t, n)

\* the TREE_HH_EXTRA block of erase, ending with  --head->count -= it.node->count
DecCounts(h, t, n) ==
  [DecLoop(h, h[n].parent, n) EXCEPT ![head(t)].count = (@ - 1) - h[n].count]

\* ---------------------------------------------------------------- insertion
\* insert(iter position, const T& x): new node as previous sibling of position
insert(m, t, position, x) ==
  Bind(Alloc(m, x), LAMBDA a :
  LET pos == IF position = NULL THEN feet(t) ELSE position
      tmp == a.ret
      h0 == a.h
      h1 == [h0 EXCEPT ![tmp].parent = h0[pos].parent,
                       ![tmp].next_sibling = pos,
                       ![tmp].prev_sibling = h0[pos].prev_sibling,
                       ![pos].prev_sibling = tmp]
      h2 == IF h1[tmp].prev_sibling = NULL
            THEN IF h1[tmp].parent # NULL
                 THEN Set(h1, h1[tmp].parent, "first_child", tmp) ELSE h1
            ELSE Set(h1, h1[tmp].prev_sibling, "next_sibling", tmp)
  IN With(a, IncCounts(h2, t, tmp)))

\* insert_after(iter position, const T& x): new node as next sibling of position
insert_after(m, t, position, x) ==
  Bind(Alloc(m, x), LAMBDA a :
  LET tmp == a.ret
      h0 == a.h
      h1 == [h0 EXCEPT ![tmp].parent = h0[position].parent,
                       ![tmp].prev_sibling = position,
                       ![tmp].next_sibling = h0[position].next_sibling,
                       ![position].next_sibling = tmp]
      h2 == IF h1[tmp].next_sibling = NULL
            THEN IF h1[tmp].parent # NULL
                 THEN Set(h1, h1[tmp].parent, "last_child", tmp) ELSE h1
            ELSE Set(h1, h1[tmp].next_sibling, "prev_sibling", tmp)
  IN With(a, h2))

\* append_child(iter position, const T& x): new node as last child of position
append_child(m, t, position, x) ==
  Bind(Alloc(m, x), LAMBDA a :
  LET tmp == a.ret
      h0 == a.h
      h1 == Set(h0, tmp, "parent", position)
      h2 == IF h1[position].last_child # NULL
            THEN Set(h1, h1[position].last_child, "next_sibling", tmp)
            ELSE Set(h1, position, "first_child", tmp)
      h3 == [h2 EXCEPT ![tmp].prev_sibling = h2[position].last_child,
                       ![position].last_child = tmp,
                       ![tmp].next_sibling = NULL]
  IN With(a, IncCounts(h3, t, tmp)))

\* prepend_child(iter position, const T& x): new node as first child of position
prepend_child(m, t, position, x) ==
  Bind(Alloc(m, x), LAMBDA a :
  LET tmp == a.ret
      h0 == a.h
      h1 == Set(h0, tmp, "parent", position)
      h2 == IF h1[position].first_child # NULL
            THEN Set(h1, h1[position].first_child, "prev_sibling", tmp)
            ELSE Set(h1, position, "last_child", tmp)
      h3 == [h2 EXCEPT ![tmp].next_sibling = h2[position].first_child,
                       ![position].first_child = tmp,
                       ![tmp].prev_sibling = NULL]
  IN With(a, h3))

\* ---------------------------------------------------------------- deletion
RECURSIVE erase_children_(_, _)
RECURSIVE FreeChain(_, _)
\* the while (cur) loop of erase_children_: free cur and its right siblings
FreeChain(m, cur) ==
  IF cur = NULL THEN m
  ELSE LET nxt == m.h[cur].next_sibling
       IN FreeChain(Free(erase_children_(m, cur), cur), nxt)

\* erase_children_ that unlinks the children of it and frees none of them
erase_children_unfreed(m, it) ==
  With(m, [m.h EXCEPT ![it].first_child = NULL, ![it].last_child = NULL])

\* erase_children_(it): free everything below it, no counter is touched
erase_children_(m, it) ==
  IF it = NULL THEN m
  ELSE Bind(FreeChain(m, m.h[it].first_child), LAMBDA m1 :
          With(m1, [m1.h EXCEPT ![it].first_child = NULL, ![it].last_child = NULL]))

\* erase_children(it): subtract it's counters from its ancestors, then free
erase_children(m, t, it) ==
  IF it = NULL THEN m
  ELSE erase_children_(With(m, SubCounts(m.h, t, it)), it)

RECURSIVE EraseRightLoop(_, _, _)
\* the while (cur != 0) loop of erase_right_siblings: cur and every node after it
\* in the chain loses its children and is freed
EraseRightLoop(m, t, cur) ==
  IF cur = NULL THEN m
  ELSE Bind(m.h[cur].next_sibling, LAMBDA nxt :
         EraseRightLoop(Free(erase_children(m, t, cur), cur), t, nxt))

\* erase_right_siblings(it)
erase_right_siblings(m, t, it) ==
  IF it = NULL THEN m
  ELSE Bind(EraseRightLoop(m, t, m.h[it].next_sibling), LAMBDA m1 :
       Bind(Set(m1.h, it, "next_sibling", NULL), LAMBDA h1 :
          With(m1, IF h1[it].parent # NULL THEN Set(h1, h1[it].parent, "last_child", it)
                   ELSE h1)))

RECURSIVE EraseLeftLoop(_, _, _)
\* the while (cur != 0) loop of erase_left_siblings
EraseLeftLoop(m, t, cur) ==
  IF cur = NULL THEN m
  ELSE Bind(m.h[cur].prev_sibling, LAMBDA nxt :
         EraseLeftLoop(Free(erase_children(m, t, cur), cur), t, nxt))

\* erase_left_siblings(it)
erase_left_siblings(m, t, it) ==
  IF it = NULL THEN m
  ELSE Bind(EraseLeftLoop(m, t, m.h[it].prev_sibling), LAMBDA m1 :
       Bind(Set(m1.h, it, "prev_sibling", NULL), LAMBDA h1 :
          With(m1, IF h1[it].parent # NULL THEN Set(h1, h1[it].parent, "first_child", it)
                   ELSE h1)))

\* erase(iter it) with iter = pre_order_iterator; returns the incremented iterator
erase(m, t, it) ==
  Bind(erase_children_(m, it), LAMBDA m1 :
  LET cur == it
      ret == PreNext(m.h, it, TRUE)
      h1 == m1.h
      h2 == IF h1[cur].prev_sibling = NULL
            THEN Set(h1, h1[cur].parent, "first_child", h1[cur].next_sibling)
            ELSE Set(h1, h1[cur].prev_sibling, "next_sibling", h1[cur].next_sibling)
      h3 == IF h2[cur].next_sibling = NULL
            THEN Set(h2, h2[cur].parent, "last_child", h2[cur].prev_sibling)
            ELSE Set(h2, h2[cur].next_sibling, "prev_sibling", h2[cur].prev_sibling)
      h4 == DecCounts(h3, t, cur)
  IN Ret(Free(With(m1, h4), cur), ret))

RECURSIVE clear(_, _)
\* clear(): erase the first root until none is left
clear(m, t) ==
  IF m.h[head(t)].next_sibling = feet(t) THEN m
  ELSE clear(erase(m, t, m.h[head(t)].next_sibling), t)

\* ---------------------------------------------------------------- replacement, copy
RECURSIVE ClimbFrom(_, _, _, _)
\* replace's inner loop: climb in step in the source and in the copy while the
\* source node has no next sibling and is not the node the copy started from
ClimbFrom(h, cf, toit, start) ==
  IF h[cf].next_sibling = NULL /\ cf # start
  THEN ClimbFrom(h, h[cf].parent, h[toit].parent, start)
  ELSE [cf |-> cf, toit |-> toit]

RECURSIVE CopyLoop(_, _, _, _, _, _)
\* replace's do ... while (current_from != last): copy the source's descendants
CopyLoop(m, t, cf, toit, start, lst) ==
  IF m.h[cf].first_child # NULL
  THEN LET cf2 == m.h[cf].first_child
       IN Bind(append_child(m, t, toit, m.h[cf2].data), LAMBDA m2 :
             IF cf2 # lst THEN CopyLoop(m2, t, cf2, m2.ret, start, lst) ELSE m2)
  ELSE LET c == ClimbFrom(m.h, cf, toit, start)
           cf2 == m.h[c.cf].next_sibling
       IN IF cf2 # lst
          THEN Bind(append_child(m, t, m.h[c.toit].parent, m.h[cf2].data), LAMBDA m2 :
                  CopyLoop(m2, t, cf2, m2.ret, start, lst))
          ELSE Ret(m, c.toit)

\* replace(position, from) had it kept the node at position and overwritten its value
replace_reusing_node(m, t, position, from) ==
  Bind(erase_children_(m, position), LAMBDA m1 :
    Ret(CopyLoop(With(m1, Set(m1.h, position, "data", m1.h[from].data)), t, from,
                 position, from, m1.h[from].next_sibling), position))

\* replace(iter position, const iterator_base& from): the subtree at position
\* becomes a copy of the subtree at from
replace(m, t, position, from) ==
  Bind(erase_children_(m, position), LAMBDA m1 :
  Bind(Alloc(m1, m1.h[from].data), LAMBDA a :
  LET current_to == position
      tmp == a.ret
      h0 == a.h
      h1 == IF h0[current_to].prev_sibling = NULL
            THEN IF h0[current_to].parent # NULL
                 THEN Set(h0, h0[current_to].parent, "first_child", tmp) ELSE h0
            ELSE Set(h0, h0[current_to].prev_sibling, "next_sibling", tmp)
      h2 == Set(h1, tmp, "prev_sibling", h1[current_to].prev_sibling)
      h3 == IF h2[current_to].next_sibling = NULL
            THEN IF h2[current_to].parent # NULL
                 THEN Set(h2, h2[current_to].parent, "last_child", tmp) ELSE h2
            ELSE Set(h2, h2[current_to].next_sibling, "prev_sibling", tmp)
      h4 == [h3 EXCEPT ![tmp].next_sibling = h3[current_to].next_sibling,
                       ![tmp].parent = h3[current_to].parent]
  IN Bind(Free(With(a, h4), current_to), LAMBDA m2 :
        Ret(CopyLoop(m2, t, from, tmp, from, m2.h[from].next_sibling), tmp))))

\* insert_subtree(position, subtree): a dummy before position, replaced by a copy
insert_subtree(m, t, position, subtree) ==
  Bind(insert(m, t, position, DefaultValue), LAMBDA m1 :
     replace(m1, t, m1.ret, subtree))

RECURSIVE CopyRoots(_, _, _, _, _)
\* copy_'s first loop: to = insert(to, *it); it.skip_children(); ++it
CopyRoots(m, t, other, it, to) ==
  IF it = End(other) THEN m
  ELSE Bind(insert(m, t, to, m.h[it].data), LAMBDA m1 :
          CopyRoots(m1, t, other, PreNext(m1.h, it, TRUE), m1.ret))

\* copy_ without its second loop: the roots are copied, what is below them is not
CopySubtreesSkipped(m, t, other, it, to) == m

RECURSIVE CopySubtrees(_, _, _, _, _)
\* copy_'s second loop: to = replace(to, it); skip the children of both; ++to; ++it
CopySubtrees(m, t, other, it, to) ==
  IF it = End(other) THEN m
  ELSE Bind(replace(m, t, to, it), LAMBDA m1 :
          CopySubtrees(m1, t, other, PreNext(m1.h, it, TRUE), PreNext(m1.h, m1.ret, TRUE)))

\* copy_(other), called on tree t
copy_(m, t, other) ==
  Bind(clear(m, t), LAMBDA m0 :
  Bind(CopyRoots(m0, t, other, Begin(m0.h, other), Begin(m0.h, t)), LAMBDA m1 :
     CopySubtrees(m1, t, other, Begin(m1.h, other), Begin(m1.h, t))))

\* operator=(tree&& x), called on tree t with x = tree other
move_assign(m, t, other) ==
  Bind(clear(m, t), LAMBDA m0 :
  LET h0 == m0.h
      h1 == [h0 EXCEPT ![head(t)].next_sibling = h0[head(other)].next_sibling,
                       ![feet(t)].prev_sibling = h0[feet(other)].prev_sibling]
      h2 == Set(h1, h1[head(other)].next_sibling, "prev_sibling", head(t))
      h3 == Set(h2, head(t), "count", h2[head(other)].count)
      h4 == Set(h3, h3[feet(other)].prev_sibling, "next_sibling", feet(t))
      h5 == Set(h4, feet(t), "count", h4[feet(other)].count)
      h6 == [h5 EXCEPT ![head(other)].next_sibling = feet(other),
                       ![feet(other)].prev_sibling = head(other)]
  IN With(m0, h6))

\* tree(tree&& x): tree t is the object under construction, x = tree other
move_construct(m, t, other) ==
  LET h0 == head_initialise_(m.h, t)
      h1 == Set(h0, head(t), "next_sibling", h0[head(other)].next_sibling)
      h2 == Set(h1, h1[head(other)].next_sibling, "prev_sibling", head(t))
      h3 == Set(h2, head(t), "count", h2[head(other)].count)
      h4 == Set(h3, feet(t), "prev_sibling", h3[feet(other)].prev_sibling)
      h5 == Set(h4, h4[feet(other)].prev_sibling, "next_sibling", feet(t))
      h6 == Set(h5, feet(t), "count", h5[feet(other)].count)
      h7 == [h6 EXCEPT ![head(other)].next_sibling = feet(other),
                       ![feet(other)].prev_sibling = head(other)]
  IN With(m, h7)

\* ---------------------------------------------------------------- splicing
\* the loop over the children left out: no parent pointer is updated
SetParentsSkipped(h, tmp, p) == h

RECURSIVE SetParents(_, _, _)
\* tmp = first; while (tmp) { tmp->parent = p; tmp = tmp->next_sibling; }
SetParents(h, tmp, p) ==
  IF tmp = NULL THEN h
  ELSE SetParents(Set(h, tmp, "parent", p), h[tmp].next_sibling, p)

\* flatten(position): the children of position become its next siblings
flatten(m, position) ==
  IF m.h[position].first_child = NULL THEN Ret(m, position)
  ELSE LET h0 == m.h
           h1 == SetParents(h0, h0[position].first_child, h0[position].parent)
           h2 == IF h1[position].next_sibling # NULL
                 THEN Set(Set(h1, h1[position].last_child, "next_sibling",
                              h1[position].next_sibling),
                          h1[position].next_sibling, "prev_sibling", h1[position].last_child)
                 ELSE Set(h1, h1[position].parent, "last_child", h1[position].last_child)
           h3 == Set(h2, position, "next_sibling", h2[position].first_child)
           h4 == Set(h3, h3[position].next_sibling, "prev_sibling", position)
           h5 == [h4 EXCEPT ![position].first_child = NULL, ![position].last_child = NULL]
       IN Ret(With(m, h5), position)

RECURSIVE LastBefore(_, _, _)
\* while ((++begin) != end) last = last->next_sibling
LastBefore(h, lst, e) ==
  IF h[lst].next_sibling = e \/ h[lst].next_sibling = NULL THEN lst
  ELSE LastBefore(h, h[lst].next_sibling, e)

RECURSIVE SetParentsTo(_, _, _, _)
\* for (;;) { pos->parent = p; if (pos == last) break; pos = pos->next_sibling; }
SetParentsTo(h, pos, lst, p) ==
  LET h1 == Set(h, pos, "parent", p)
  IN IF pos = lst \/ pos = NULL THEN h1 ELSE SetParentsTo(h1, h1[pos].next_sibling, lst, p)

\* reparent(position, begin, end): the siblings [begin, end) become the last
\* children of position
reparent_range(m, position, begin, end) ==
  IF begin = end THEN Ret(m, begin)
  ELSE LET first == begin
           lst == LastBefore(m.h, first, end)
           h0 == m.h
           h1 == IF h0[first].prev_sibling = NULL
                 THEN Set(h0, h0[first].parent, "first_child", h0[lst].next_sibling)
                 ELSE Set(h0, h0[first].prev_sibling, "next_sibling", h0[lst].next_sibling)
           h2 == IF h1[lst].next_sibling = NULL
                 THEN Set(h1, h1[lst].parent, "last_child", h1[first].prev_sibling)
                 ELSE Set(h1, h1[lst].next_sibling, "prev_sibling", h1[first].prev_sibling)
           h3 == IF h2[position].first_child = NULL
                 THEN [h2 EXCEPT ![position].first_child = first,
                                 ![position].last_child = lst,
                                 ![first].prev_sibling = NULL]
                 ELSE LET g1 == Set(h2, h2[position].last_child, "next_sibling", first)
                          g2 == Set(g1, first, "prev_sibling", g1[position].last_child)
                      IN Set(g2, position, "last_child", lst)
           h4 == Set(h3, lst, "next_sibling", NULL)
       IN Ret(With(m, SetParentsTo(h4, first, lst, position)), first)

\* reparent(position, from): the children of from become children of position
reparent(m, position, from) ==
  IF m.h[from].first_child = NULL THEN Ret(m, position)
  ELSE reparent_range(m, position, m.h[from].first_child, NULL)

\* wrap(position, x): a new node takes the place of position and adopts it
wrap(m, t, position, x) ==
  LET fr == position
      to == m.h[position].next_sibling
  IN Bind(insert(m, t, position, x), LAMBDA m1 :
        Ret(reparent_range(m1, m1.ret, fr, to), m1.ret))

\* ---------------------------------------------------------------- extraction
RECURSIVE InsertRange(_, _, _, _, _, _)
\* replace's first loop: a copy of every sibling new_first .. new_last, with its
\* subtree, is inserted before orig_first; ret is the first copy
InsertRange(m, t, orig_first, new_first, new_last, first) ==
  Bind(insert_subtree(m, t, orig_first, new_first), LAMBDA m1 :
    Bind(IF first THEN m1 ELSE Ret(m1, m.ret), LAMBDA m2 :
      IF new_first = new_last THEN m2
      ELSE InsertRange(m2, t, orig_first, m2.h[new_first].next_sibling, new_last, FALSE)))

\* replace without its second loop: the old range is left in the tree
EraseRangeSkipped(m, t, orig_first, orig_last) == m

RECURSIVE EraseRange(_, _, _, _)
\* replace's second loop: the siblings orig_first .. orig_last are erased
EraseRange(m, t, orig_first, orig_last) ==
  Bind(m.h[orig_first].next_sibling, LAMBDA next :
    Bind(Ret(erase(m, t, orig_first), m.ret), LAMBDA m1 :
      IF orig_first = orig_last THEN m1 ELSE EraseRange(m1, t, next, orig_last)))

\* replace(orig_begin, orig_end, new_begin, new_end) of tree t: the siblings
\* [orig_begin, orig_end) are replaced by copies of the siblings [new_begin, new_end)
replace_range(m, t, orig_begin, orig_end, new_begin, new_end) ==
  Bind(LastBefore(m.h, orig_begin, orig_end), LAMBDA orig_last :
    Bind(LastBefore(m.h, new_begin, new_end), LAMBDA new_last :
      EraseRange(InsertRange(m, t, orig_begin, new_begin, new_last, TRUE),
                 t, orig_begin, orig_last)))

\* set_head(x) of tree t
set_head(m, t, x) == insert(m, t, feet(t), x)

\* subtree(from, to): tree tmp is constructed, given a dummy root and has its
\* roots replaced by the range
subtree(m, tmp, from, to) ==
  Bind(set_head(With(m, head_initialise_(m.h, tmp)), tmp, DefaultValue), LAMBDA m1 :
    replace_range(m1, tmp, Begin(m1.h, tmp), End(tmp), from, to))

\* ---------------------------------------------------------------- moves
\* "take src out of the tree", the block shared by move_after, move_before, move_ontop
TakeOut(h, src) ==
  LET h1 == IF h[src].prev_sibling # NULL
            THEN Set(h, h[src].prev_sibling, "next_sibling", h[src].next_sibling)
            ELSE Set(h, h[src].parent, "first_child", h[src].next_sibling)
  IN IF h1[src].next_sibling # NULL
     THEN Set(h1, h1[src].next_sibling, "prev_sibling", h1[src].prev_sibling)
     ELSE Set(h1, h1[src].parent, "last_child", h1[src].prev_sibling)

\* move_after(target, source): source and its subtree become target's next sibling
move_after(m, target, source) ==
  LET dst == target
      src == source
  IN IF dst = src \/ m.h[dst].next_sibling = src THEN Ret(m, source)
     ELSE Bind(TakeOut(m.h, src), LAMBDA h1 :
          LET h2 == IF h1[dst].next_sibling # NULL
                    THEN Set(h1, h1[dst].next_sibling, "prev_sibling", src)
                    ELSE Set(h1, h1[dst].parent, "last_child", src)
              h3 == Set(h2, src, "next_sibling", h2[dst].next_sibling)
          IN Ret(With(m, [h3 EXCEPT ![dst].next_sibling = src,
                                    ![src].prev_sibling = dst,
                                    ![src].parent = h3[dst].parent]), src))

\* move_before(target, source): source and its subtree become target's previous sibling
move_before(m, target, source) ==
  LET dst == target
      src == source
  IN IF dst = src \/ m.h[dst].prev_sibling = src THEN Ret(m, source)
     ELSE Bind(TakeOut(m.h, src), LAMBDA h1 :
          LET h2 == IF h1[dst].prev_sibling # NULL
                    THEN Set(h1, h1[dst].prev_sibling, "next_sibling", src)
                    ELSE Set(h1, h1[dst].parent, "first_child", src)
              h3 == Set(h2, src, "prev_sibling", h2[dst].prev_sibling)
          IN Ret(With(m, [h3 EXCEPT ![dst].prev_sibling = src,
                                    ![src].next_sibling = dst,
                                    ![src].parent = h3[dst].parent]), src))

\* move_before(sibling_iterator target, sibling_iterator source); a target whose node
\* is null is the end of the children of parent_
move_before_sibling(m, parent_, target, source) ==
  LET dst == target
      src == source
      dst_prev_sibling == IF dst = NULL THEN m.h[parent_].last_child
                          ELSE m.h[dst].prev_sibling
  IN IF dst = src \/ dst_prev_sibling = src THEN Ret(m, source)
     ELSE Bind(TakeOut(m.h, src), LAMBDA h1 :
          LET h2 == IF dst_prev_sibling # NULL
                    THEN Set(h1, dst_prev_sibling, "next_sibling", src)
                    ELSE Set(h1, parent_, "first_child", src)
              h3 == Set(h2, src, "prev_sibling", dst_prev_sibling)
              h4 == IF dst # NULL
                    THEN [h3 EXCEPT ![dst].prev_sibling = src, ![src].parent = h3[dst].parent]
                    ELSE h3
          IN Ret(With(m, Set(h4, src, "next_sibling", dst)), src))

\* move_ontop(target, source): target is erased, source takes its place
move_ontop(m, t, target, source) ==
  LET dst == target
      src == source
      b_prev_sibling == m.h[dst].prev_sibling
      b_next_sibling == m.h[dst].next_sibling
      b_parent == m.h[dst].parent
  IN IF dst = src THEN Ret(m, source)
     ELSE Bind(erase(m, t, target), LAMBDA m1 :
          Bind(TakeOut(m1.h, src), LAMBDA h1 :
          LET h2 == IF b_prev_sibling # NULL
                    THEN Set(h1, b_prev_sibling, "next_sibling", src)
                    ELSE Set(h1, b_parent, "first_child", src)
              h3 == IF b_next_sibling # NULL
                    THEN Set(h2, b_next_sibling, "prev_sibling", src)
                    ELSE Set(h2, b_parent, "last_child", src)
          IN Ret(With(m1, [h3 EXCEPT ![src].prev_sibling = b_prev_sibling,
                                     ![src].next_sibling = b_next_sibling,
                                     ![src].parent = b_parent]), src)))

\* move_out(source), called on any tree; ret is the tree object it returns
move_out(m, ret, source) ==
  LET h0 == [m.h EXCEPT ![head(ret)].next_sibling = source,
                        ![feet(ret)].prev_sibling = source,
                        ![source].parent = NULL]
      h1 == IF h0[source].prev_sibling # NULL
            THEN Set(h0, h0[source].prev_sibling, "next_sibling", h0[source].next_sibling)
            ELSE h0
      h2 == IF h1[source].next_sibling # NULL
            THEN Set(h1, h1[source].next_sibling, "prev_sibling", h1[source].prev_sibling)
            ELSE h1
  IN With(m, [h2 EXCEPT ![source].prev_sibling = head(ret),
                        ![source].next_sibling = feet(ret)])

RECURSIVE AdoptWalk(_, _, _, _)
\* "Adjust parent pointers": walk->parent = p from walk to other_last_head
AdoptWalk(h, walk, other_last_head, p) ==
  IF walk = NULL THEN Set(h, walk, "parent", p)
  ELSE IF walk = other_last_head THEN Set(h, walk, "parent", p)
  ELSE AdoptWalk(Set(h, walk, "parent", p), h[walk].next_sibling, other_last_head, p)

\* "Close other tree"
CloseTree(h, other) ==
  [h EXCEPT ![head(other)].next_sibling = feet(other),
            ![feet(other)].prev_sibling = head(other)]

\* move_in(loc, other): the roots of other become the previous siblings of loc
move_in(m, loc, other) ==
  IF m.h[head(other)].next_sibling = feet(other) THEN Ret(m, loc)
  ELSE LET other_first_head == m.h[head(other)].next_sibling
           other_last_head == m.h[feet(other)].prev_sibling
           prev == m.h[loc].prev_sibling
           h1 == Set(m.h, prev, "next_sibling", other_first_head)
           h2 == [h1 EXCEPT ![loc].prev_sibling = other_last_head,
                            ![other_first_head].prev_sibling = prev,
                            ![other_last_head].next_sibling = loc]
       IN Bind(AdoptWalk(h2, other_first_head, other_last_head, h2[loc].parent),
               LAMBDA h3 : Ret(With(m, CloseTree(h3, other)), other_first_head))

RECURSIVE NthWalk(_, _, _)
\* move_in_as_nth_child's walk: n steps right from walk, null past the last child
NthWalk(h, walk, n) ==
  IF walk = NULL \/ n = 0 THEN walk ELSE NthWalk(h, h[walk].next_sibling, n - 1)

\* move_in_as_nth_child(loc, n, other): the roots of other become children of loc,
\* the first of them its n-th child
move_in_as_nth_child(m, loc, n, other) ==
  IF m.h[head(other)].next_sibling = feet(other) THEN Ret(m, loc)
  ELSE LET other_first_head == m.h[head(other)].next_sibling
           other_last_head == m.h[feet(other)].prev_sibling
           h0 == m.h
           walk == NthWalk(h0, h0[loc].first_child, n - 1)
           h1 == IF n = 0
                 THEN IF h0[loc].first_child = NULL
                      THEN [h0 EXCEPT ![loc].first_child = other_first_head,
                                      ![loc].last_child = other_last_head,
                                      ![other_last_head].next_sibling = NULL,
                                      ![other_first_head].prev_sibling = NULL]
                      ELSE LET g1 == [h0 EXCEPT ![h0[loc].first_child].prev_sibling =
                                                     other_last_head,
                                                ![other_last_head].next_sibling =
                                                     h0[loc].first_child]
                           IN [g1 EXCEPT ![loc].first_child = other_first_head,
                                         ![other_first_head].prev_sibling = NULL]
                 ELSE LET g1 == IF h0[walk].next_sibling = NULL
                                THEN Set(h0, loc, "last_child", other_last_head)
                                ELSE Set(h0, h0[walk].next_sibling, "prev_sibling",
                                         other_last_head)
                          g2 == Set(g1, other_last_head, "next_sibling", g1[walk].next_sibling)
                      IN [g2 EXCEPT ![walk].next_sibling = other_first_head,
                                    ![other_first_head].prev_sibling = walk]
       IN IF n > 0 /\ walk = NULL THEN Ret(m, RANGE_ERROR)
          ELSE Bind(AdoptWalk(h1, other_first_head, other_last_head, loc), LAMBDA h2 :
                  Ret(With(m, CloseTree(h2, other)), other_first_head))

\* ---------------------------------------------------------------- sort, swap
RECURSIVE ChainUntil(_, _, _, _)
\* the siblings of the range [from, to), at most fuel of them
ChainUntil(h, from, to, fuel) ==
  IF from = to \/ from = NULL \/ fuel = 0 THEN <<>>
  ELSE <<from>> \o ChainUntil(h, h[from].next_sibling, to, fuel - 1)

RECURSIVE MultisetInsertBeforeEqual(_, _, _)
\* an insert that puts a node before the nodes it compares equivalent to
MultisetInsertBeforeEqual(h, nodes, n) ==
  IF nodes = <<>> THEN <<n>>
  ELSE IF h[n].data <= h[nodes[1]].data THEN <<n>> \o nodes
  ELSE <<nodes[1]>> \o MultisetInsertBeforeEqual(h, Tail(nodes), n)

RECURSIVE MultisetInsert(_, _, _)
\* std::multiset::insert with compare_nodes<std::less<T>>: after the nodes that do
\* not compare greater
MultisetInsert(h, nodes, n) ==
  IF nodes = <<>> THEN <<n>>
  ELSE IF h[n].data < h[nodes[1]].data THEN <<n>> \o nodes
  ELSE <<nodes[1]>> \o MultisetInsert(h, Tail(nodes), n)

RECURSIVE Multiset(_, _, _)
\* the multiset filled by  while (it != to) { nodes.insert(it.node); ++it; }
Multiset(h, range, nodes) ==
  IF range = <<>> THEN nodes
  ELSE Multiset(h, Tail(range), MultisetInsert(h, nodes, range[1]))

RECURSIVE ReassembleNextOnly(_, _, _, _)
\* a reassembly that links the sorted nodes forwards and leaves prev_sibling as it was
ReassembleNextOnly(h, nodes, i, prev) ==
  IF i >= Len(nodes) THEN [h |-> h, prev |-> prev]
  ELSE ReassembleNextOnly(IF prev # NULL THEN Set(h, prev, "next_sibling", nodes[i]) ELSE h,
                          nodes, i + 1, nodes[i])

RECURSIVE Reassemble(_, _, _, _)
\* while (nit != eit): link *nit after prev; gives the heap and the final prev
Reassemble(h, nodes, i, prev) ==
  IF i >= Len(nodes) THEN [h |-> h, prev |-> prev]
  ELSE LET h1 == Set(h, nodes[i], "prev_sibling", prev)
           h2 == IF prev # NULL THEN Set(h1, prev, "next_sibling", nodes[i]) ELSE h1
       IN Reassemble(h2, nodes, i + 1, nodes[i])

RECURSIVE sort(_, _, _, _)
RECURSIVE SortChildren(_, _, _)
\* if (deep): sort(begin(bcs), end(bcs), comp, deep) for every node of the range
SortChildren(h, bcs, ecs) ==
  IF bcs = ecs \/ bcs = NULL THEN h
  ELSE Bind(sort(h, h[bcs].first_child, NULL, TRUE), LAMBDA h1 :
          SortChildren(h1, h1[bcs].next_sibling, ecs))

\* sort(from, to, comp, deep) with comp = std::less<T>, on the heap
sort(h, from, to, deep) ==
  IF from = to THEN h
  ELSE Bind(Multiset(h, ChainUntil(h, from, to, Fuel), <<>>), LAMBDA nodes :
       LET range == ChainUntil(h, from, to, Fuel)
           it2 == range[Len(range)]
           prev == h[from].prev_sibling
           next == h[it2].next_sibling
           nit == nodes[1]
           eit == nodes[Len(nodes)]
           h1 == IF prev = NULL
                 THEN IF h[nit].parent # NULL
                      THEN Set(h, h[nit].parent, "first_child", nit) ELSE h
                 ELSE Set(h, prev, "next_sibling", nit)
       IN Bind(Reassemble(h1, nodes, 1, prev), LAMBDA r :
          LET h2 == IF r.prev # NULL THEN Set(r.h, r.prev, "next_sibling", eit) ELSE r.h
              h3 == [h2 EXCEPT ![eit].next_sibling = next, ![eit].prev_sibling = r.prev]
              h4 == IF next = NULL
                    THEN IF h3[eit].parent # NULL
                         THEN Set(h3, h3[eit].parent, "last_child", eit) ELSE h3
                    ELSE Set(h3, next, "prev_sibling", eit)
          IN IF deep THEN SortChildren(h4, nit, h4[eit].next_sibling) ELSE h4))

\* swap(sibling_iterator it): it changes place with its next sibling
swap_sibling(h, it) ==
  LET nxt == h[it].next_sibling
      nxtnxt == h[nxt].next_sibling
      h1 == IF h[it].prev_sibling # NULL
            THEN Set(h, h[it].prev_sibling, "next_sibling", nxt)
            ELSE Set(h, h[it].parent, "first_child", nxt)
      h2 == Set(h1, nxt, "prev_sibling", h1[it].prev_sibling)
      h3 == IF nxtnxt # NULL
            THEN Set(h2, nxtnxt, "prev_sibling", it)
            ELSE Set(h2, h2[it].parent, "last_child", it)
  IN IF nxt = NULL THEN h
     ELSE [h3 EXCEPT ![nxt].next_sibling = it,
                     ![it].prev_sibling = nxt,
                     ![it].next_sibling = nxtnxt]

\* a swap that handles adjacent siblings and leaves any other pair where it is
swap_adjacent_only(h, one, two) ==
  IF h[one].next_sibling = two THEN swap_sibling(h, one)
  ELSE IF h[two].next_sibling = one THEN swap_sibling(h, two)
  ELSE h

\* swap(iterator one, iterator two): the two subtrees change places
swap(h, one, two) ==
  IF h[one].next_sibling = two THEN swap_sibling(h, one)
  ELSE IF h[two].next_sibling = one THEN swap_sibling(h, two)
  ELSE LET nxt1 == h[one].next_sibling
           nxt2 == h[two].next_sibling
           pre1 == h[one].prev_sibling
           pre2 == h[two].prev_sibling
           par1 == h[one].parent
           par2 == h[two].parent
           h1 == [h EXCEPT ![one].parent = par2, ![one].next_sibling = nxt2]
           h2 == IF nxt2 # NULL THEN Set(h1, nxt2, "prev_sibling", one)
                 ELSE Set(h1, par2, "last_child", one)
           h3 == Set(h2, one, "prev_sibling", pre2)
           h4 == IF pre2 # NULL THEN Set(h3, pre2, "next_sibling", one)
                 ELSE Set(h3, par2, "first_child", one)
           h5 == [h4 EXCEPT ![two].parent = par1, ![two].next_sibling = nxt1]
           h6 == IF nxt1 # NULL THEN Set(h5, nxt1, "prev_sibling", two)
                 ELSE Set(h5, par1, "last_child", two)
           h7 == Set(h6, two, "prev_sibling", pre1)
       IN IF pre1 # NULL THEN Set(h7, pre1, "next_sibling", two)
          ELSE Set(h7, par1, "first_child", two)

\* ---------------------------------------------------------------- paths
\* path_from_iterator without the std::reverse
ReverseForgotten(s) == s

\* std::reverse
Reverse(s) == [i \in 1 .. Len(s) |-> s[Len(s) + 1 - i]]

RECURSIVE PathBack(_, _, _, _, _)
\* path_from_iterator's inner loop: count the steps left to the first sibling
PathBack(h, t, walk, top, num) ==
  IF walk # top /\ h[walk].prev_sibling # NULL /\ h[walk].prev_sibling # head(t)
  THEN PathBack(h, t, h[walk].prev_sibling, top, num + 1)
  ELSE [walk |-> walk, num |-> num]

RECURSIVE PathLoop(_, _, _, _, _)
\* path_from_iterator's do ... while (walk->parent != 0 && walk != top.node)
PathLoop(h, t, walk, top, path) ==
  Bind(PathBack(h, t, walk, top, 0), LAMBDA r :
     IF h[r.walk].parent # NULL /\ r.walk # top
     THEN PathLoop(h, t, h[r.walk].parent, top, Append(path, r.num))
     ELSE Append(path, r.num))

\* path_from_iterator(iter, top), called on tree t
path_from_iterator(h, t, iter, top) == Reverse(PathLoop(h, t, iter, top, <<>>))

RECURSIVE SiblingSteps(_, _, _)
\* for (i = 0; i < path[step]; ++i): walk right, throw at a null
SiblingSteps(h, walk, i) ==
  IF i = 0 THEN walk
  ELSE IF h[walk].next_sibling = NULL THEN RANGE_ERROR
  ELSE SiblingSteps(h, h[walk].next_sibling, i - 1)

RECURSIVE PathSteps(_, _, _, _)
\* iterator_from_path's outer loop; step counts from 1
PathSteps(h, path, step, walk) ==
  IF step > Len(path) THEN walk
  ELSE LET down == IF step > 1 THEN h[walk].first_child ELSE walk
       IN IF down = NULL THEN RANGE_ERROR
          ELSE Bind(SiblingSteps(h, down, path[step]), LAMBDA w :
                  IF w = RANGE_ERROR THEN RANGE_ERROR
                  ELSE PathSteps(h, path, step + 1, w))

\* iterator_from_path(path, top): the node, or RANGE_ERROR when it throws
iterator_from_path(h, path, top) == PathSteps(h, path, 1, top)

\* ---------------------------------------------------------------- well-formedness
\* debug_verify_consistency's assertions, for every node: sibling links are mutual
SiblingLinksOK(h, lv) ==
  \A n \in lv \cup Sentinels :
     /\ h[n].prev_sibling # NULL => h[h[n].prev_sibling].next_sibling = n
     /\ h[n].next_sibling # NULL => h[h[n].next_sibling].prev_sibling = n

\* an edge child is its parent's first_child / last_child
EdgeLinksOK(h, lv) ==
  \A n \in lv :
     h[n].parent # NULL =>
        /\ h[n].prev_sibling = NULL => h[h[n].parent].first_child = n
        /\ h[n].next_sibling = NULL => h[h[n].parent].last_child = n

\* every node of a child chain has the chain's owner as parent; roots have none
ParentLinksOK(h, lv) ==
  /\ \A p \in lv : \A c \in Range(Children(h, p)) : h[c].parent = p
  /\ \A t \in Trees : \A r \in Range(Roots(h, t)) : h[r].parent = NULL

\* what is linked is allocated, and a node has a first child exactly if it has a last
AllocatedOK(h, lv) ==
  /\ \A p \in lv : Range(Children(h, p)) \subseteq lv
  /\ \A p \in lv : (h[p].first_child = NULL) = (h[p].last_child = NULL)
  /\ \A t \in Trees : Range(Roots(h, t)) \subseteq lv

\* the roots form one chain that starts after head and ends before feet
RootChainOK(h, t) ==
  LET c == ChainFrom(h, head(t), Fuel)
  IN /\ h[head(t)].prev_sibling = NULL
     /\ h[feet(t)].next_sibling = NULL
     /\ Len(c) >= 2
     /\ c[Len(c)] = feet(t)
     /\ \A i \in 2 .. Len(c) - 1 : c[i] \notin Sentinels

\* the link structure that debug_verify_consistency asserts
LinksOK(h, lv) ==
  /\ SiblingLinksOK(h, lv)
  /\ EdgeLinksOK(h, lv)
  /\ ParentLinksOK(h, lv)
  /\ \A t \in Trees : RootChainOK(h, t)

WellFormed(h, lv) == ~Faulted(h) /\ AllocatedOK(h, lv) /\ LinksOK(h, lv)

\* every live node hangs under exactly one head and is met once on the way down
Owned(h, lv) ==
  /\ \A n \in lv : Cardinality({t \in Trees : n \in Reach(h, t)}) = 1
  /\ \A t \in Trees : Reach(h, t) \subseteq lv
  /\ \A t \in Trees :
        LET po == PreOrder(h, t)
        IN /\ Range(po) = Reach(h, t)
           /\ Len(po) = Cardinality(Reach(h, t))

\* the cached counts as the counted insertions and erase keep them: a node's count
\* is the number of nodes below it, head's count the number of nodes of the tree
CountsOK(h, lv) ==
  /\ \A n \in lv : h[n].count = Cardinality(Desc(h, n))
  /\ \A t \in Trees : /\ h[head(t)].count = Cardinality(Reach(h, t))
                       /\ h[feet(t)].count = 0

\* What a caller relies on before it calls a member function: the tree is as the
\* previous calls should have left it.  A state that is not is the end of a run.
Consistent == WellFormed(heap, live) /\ Owned(heap, live) /\ CountsOK(heap, live)

\* ---------------------------------------------------------------- the machine
RECURSIVE Dedup(_, _)
\* s without the elements of seen and without repetitions
Dedup(s, seen) ==
  IF s = <<>> THEN <<>>
  ELSE IF s[1] \in seen THEN Dedup(Tail(s), seen)
  ELSE <<s[1]>> \o Dedup(Tail(s), seen \cup {s[1]})

RECURSIVE Ascending(_)
Ascending(S) ==
  IF S = {} THEN <<>>
  ELSE LET x == CHOOSE y \in S : \A z \in S : y <= z
       IN <<x>> \o Ascending(S \ {x})

\* Node addresses carry no meaning: a state is kept with its nodes renamed so that
\* the nodes of tree 1 in pre-order come first, then those of tree 2, then the rest.
Naming(h, lv) ==
  Bind(Dedup(SelectSeq(PreOrder(h, 1) \o PreOrder(h, 2), LAMBDA x : x \in lv), {}),
       LAMBDA met :
  Bind(met \o Ascending(lv \ Range(met)) \o Ascending(DataIds \ lv), LAMBDA order :
     [n \in Ids \cup {NULL} |->
        IF n \in DataIds
        THEN FirstData + (CHOOSE i \in 1 .. Len(order) : order[i] = n) - 1
        ELSE n]))

Renamed(h, f) ==
  Bind([n \in Ids \cup {NULL} |-> CHOOSE x \in Ids \cup {NULL} : f[x] = n], LAMBDA g :
     [n \in Ids \cup {NULL} |->
        [h[g[n]] EXCEPT !.parent = f[@], !.first_child = f[@], !.last_child = f[@],
                        !.prev_sibling = f[@], !.next_sibling = f[@]]])

M == [h |-> heap, live |-> live, ret |-> NULL]

\* the last call: the member function and the tree it was called on; for a call that
\* only reads the tree also its node arguments, the path passed or returned and the
\* node returned
Call(op, t, a, b, path, r) ==
  [op |-> op, t |-> t, a |-> a, b |-> b, path |-> path, ret |-> r]

\* the state after a member function op of tree t has left the machine as m
Commit(m, op, t) ==
  \E f \in {Naming(m.h, m.live)} :
     /\ heap' = Renamed(m.h, f)
     /\ live' = {f[n] : n \in m.live}
     /\ last' = Call(op, t, NULL, NULL, <<>>, NULL)
     /\ UNCHANGED <<selection, multiple_selection>>

\* room for k more nodes
CanAlloc(k) == Cardinality(live) + k <= MaxNodes

\* head_initialise_: multiple_selection = false; the selection set starts empty
NothingSelected == selection = <<>> /\ multiple_selection = FALSE

Init ==
  /\ heap = head_initialise_(head_initialise_([n \in Ids \cup {NULL} |-> tree_node_], 1), 2)
  /\ live = {}
  /\ last = Call("tree", 0, NULL, NULL, <<>>, NULL)
  /\ NothingSelected

Insert(t) ==
  /\ Consistent
  /\ \E pos \in Reach(heap, t) \cup {feet(t)}, x \in Values :
     /\ CanAlloc(1)
     /\ \E m \in {insert(M, t, pos, x)} :
          Commit(m, "insert", t)

InsertAfter(t) ==
  /\ Consistent
  /\ \E pos \in Reach(heap, t), x \in Values :
     /\ CanAlloc(1)
     /\ \E m \in {insert_after(M, t, pos, x)} :
          Commit(m, "insert_after", t)

AppendChild(t) ==
  /\ Consistent
  /\ \E pos \in Reach(heap, t), x \in Values :
     /\ CanAlloc(1)
     /\ \E m \in {append_child(M, t, pos, x)} :
          Commit(m, "append_child", t)

PrependChild(t) ==
  /\ Consistent
  /\ \E pos \in Reach(heap, t), x \in Values :
     /\ CanAlloc(1)
     /\ \E m \in {prepend_child(M, t, pos, x)} :
          Commit(m, "prepend_child", t)

Erase(t) ==
  /\ Consistent
  /\ \E n \in Reach(heap, t) :
     /\ \E m \in {erase(M, t, n)} :
          Commit(m, "erase", t)

EraseChildren(t) ==
  /\ Consistent
  /\ \E n \in Reach(heap, t) :
     /\ \E m \in {erase_children(M, t, n)} :
          Commit(m, "erase_children", t)

EraseRightSiblings(t) ==
  /\ Consistent
  /\ \E n \in Reach(heap, t) :
     /\ \E m \in {erase_right_siblings(M, t, n)} :
          Commit(m, "erase_right_siblings", t)

EraseLeftSiblings(t) ==
  /\ Consistent
  /\ \E n \in Reach(heap, t) :
     /\ \E m \in {erase_left_siblings(M, t, n)} :
          Commit(m, "erase_left_siblings", t)

Clear(t) ==
  /\ Consistent
  /\ \E m \in {clear(M, t)} :
          Commit(m, "clear", t)

\* the other tree object
Other(t) == 3 - t

\* neither node is the other or above the other
Apart(h, a, b) == a # b /\ a \notin Desc(h, b) /\ b \notin Desc(h, a)

\* the nodes of both trees
AllNodes == Reach(heap, 1) \cup Reach(heap, 2)

Replace(t) ==
  /\ Consistent
  /\ \E pos \in Reach(heap, t), from \in AllNodes :
     /\ Apart(heap, pos, from)
     /\ \E m \in {replace(M, t, pos, from)} :
          /\ Cardinality(m.live) <= MaxNodes
          /\ Commit(m, "replace", t)

InsertSubtree(t) ==
  /\ Consistent
  /\ \E pos \in Reach(heap, t) \cup {feet(t)}, from \in AllNodes :
     /\ pos \notin Desc(heap, from)
     /\ Cardinality(live) + 1 + Cardinality(Desc(heap, from)) <= MaxNodes
     /\ \E m \in {insert_subtree(M, t, pos, from)} :
          Commit(m, "insert_subtree", t)

\* operator=(const tree& other): if (this != &other) copy_(other)
CopyAssign(t) ==
  /\ Consistent
  /\ 2 * Cardinality(Reach(heap, Other(t))) <= MaxNodes + 1
  /\ \E m \in {copy_(M, t, Other(t))} :
          Commit(m, "copy", t)

MoveAssign(t) ==
  /\ Consistent
  /\ \E m \in {move_assign(M, t, Other(t))} :
          Commit(m, "move_assign", t)

\* tree(tree&&): an empty tree t stands for the object that is constructed
MoveConstruct(t) ==
  /\ Consistent
  /\ Reach(heap, t) = {}
  /\ \E m \in {move_construct(M, t, Other(t))} :
          Commit(m, "move_construct", t)

\* the siblings of the range [from, to), in order
RangeOf(h, from, to) == ChainUntil(h, from, to, Fuel)

\* the nodes of the range [from, to) and of their subtrees
RangeNodes(h, from, to) == UNION {Below(h, n, Fuel) : n \in Range(RangeOf(h, from, to))}

\* the address pool has room for subtree(from, to): for the copies, for the dummy
\* root and for the dummy that insert_subtree puts in before it is replaced
RoomFor(h, from, to) ==
  Cardinality(live) + Cardinality(RangeNodes(h, from, to)) + 2 <= PoolSize

\* tree tmp = subtree(from, to): tmp is the other tree object, freshly constructed;
\* to is a sibling to the right of from or the end of the sibling chain
SubtreeOf(t) ==
  /\ Consistent
  /\ Reach(heap, Other(t)) = {}
  /\ \E from \in Reach(heap, t) :
        \E to \in Range(ChainFrom(heap, heap[from].next_sibling, Fuel))
                    \cup (IF heap[from].parent = NULL THEN {} ELSE {NULL}) :
           /\ CanAlloc(Cardinality(RangeNodes(heap, from, to)))
           /\ \E m \in {subtree(M, Other(t), from, to)} :
                 Commit(m, "subtree", t)

Flatten(t) ==
  /\ Consistent
  /\ \E pos \in Reach(heap, t) :
     /\ \E m \in {flatten(M, pos)} :
          Commit(m, "flatten", t)

Reparent(t) ==
  /\ Consistent
  /\ \E pos \in Reach(heap, t), from \in Reach(heap, t) :
     /\ pos \notin Desc(heap, from)
     /\ \E m \in {reparent(M, pos, from)} :
          Commit(m, "reparent", t)

Wrap(t) ==
  /\ Consistent
  /\ \E pos \in Reach(heap, t), x \in Values :
     /\ CanAlloc(1)
     /\ \E m \in {wrap(M, t, pos, x)} :
          Commit(m, "wrap", t)

MoveAfter(t) ==
  /\ Consistent
  /\ \E target \in Reach(heap, t), source \in Reach(heap, t) :
     /\ target \notin Desc(heap, source)
     /\ \E m \in {move_after(M, target, source)} :
          Commit(m, "move_after", t)

MoveBefore(t) ==
  /\ Consistent
  /\ \E target \in Reach(heap, t), source \in Reach(heap, t) :
     /\ target \notin Desc(heap, source)
     /\ \E m \in {move_before(M, target, source)} :
          Commit(m, "move_before", t)

\* move_before(end(parent_), source): source is to become the last child of parent_
MoveBeforeEnd(t) ==
  /\ Consistent
  /\ \E parent_ \in Reach(heap, t), source \in Reach(heap, t) :
     /\ heap[parent_].first_child # NULL
     /\ parent_ # source /\ parent_ \notin Desc(heap, source)
     /\ \E m \in {move_before_sibling(M, parent_, NULL, source)} :
          Commit(m, "move_before_end", t)

MoveOntop(t) ==
  /\ Consistent
  /\ \E target \in Reach(heap, t), source \in Reach(heap, t) :
     /\ Apart(heap, target, source)
     /\ \E m \in {move_ontop(M, t, target, source)} :
          Commit(m, "move_ontop", t)

\* tree ret = move_out(source): ret is the other tree object, freshly constructed
MoveOut(t) ==
  /\ Consistent
  /\ \E source \in Reach(heap, t) :
     /\ Reach(heap, Other(t)) = {}
     /\ \E m \in {move_out(M, Other(t), source)} :
          Commit(m, "move_out", t)

MoveIn(t) ==
  /\ Consistent
  /\ \E loc \in Reach(heap, t) :
     /\ \E m \in {move_in(M, loc, Other(t))} :
          Commit(m, "move_in", t)

MoveInAsNthChild(t) ==
  /\ Consistent
  /\ \E loc \in Reach(heap, t), n \in 0 .. MaxNodes :
     /\ \E m \in {move_in_as_nth_child(M, loc, n, Other(t))} :
          Commit(m, "move_in_as_nth_child", t)

\* sort(begin(), end(), deep): the roots of tree t
SortRoots(t) ==
  /\ Consistent
  /\ \E deep \in BOOLEAN :
     /\ \E h \in {sort(heap, Begin(heap, t), End(t), deep)} :
          Commit(With(M, h), "sort", t)

\* sort(begin(p), end(p), deep): the children of p
SortChildrenOf(t) ==
  /\ Consistent
  /\ \E p \in Reach(heap, t), deep \in BOOLEAN :
     /\ \E h \in {sort(heap, heap[p].first_child, NULL, deep)} :
          Commit(With(M, h), "sort", t)

SwapSibling(t) ==
  /\ Consistent
  /\ \E it \in Reach(heap, t) :
     /\ \E h \in {swap_sibling(heap, it)} :
          Commit(With(M, h), "swap_sibling", t)

Swap(t) ==
  /\ Consistent
  /\ \E one \in Reach(heap, t), two \in Reach(heap, t) :
     /\ Apart(heap, one, two)
     /\ \E h \in {swap(heap, one, two)} :
          Commit(With(M, h), "swap", t)

Next ==
  \/ \E t \in Trees : Insert(t)
  \/ \E t \in Trees : InsertAfter(t)
  \/ \E t \in Trees : AppendChild(t)
  \/ \E t \in Trees : PrependChild(t)
  \/ \E t \in Trees : Erase(t)
  \/ \E t \in Trees : EraseChildren(t)
  \/ \E t \in Trees : EraseRightSiblings(t)
  \/ \E t \in Trees : EraseLeftSiblings(t)
  \/ \E t \in Trees : Clear(t)
  \/ \E t \in Trees : Replace(t)
  \/ \E t \in Trees : InsertSubtree(t)
  \/ \E t \in Trees : CopyAssign(t)
  \/ \E t \in Trees : MoveAssign(t)
  \/ \E t \in Trees : MoveConstruct(t)
  \/ \E t \in Trees : SubtreeOf(t)
  \/ \E t \in Trees : Flatten(t)
  \/ \E t \in Trees : Reparent(t)
  \/ \E t \in Trees : Wrap(t)
  \/ \E t \in Trees : MoveAfter(t)
  \/ \E t \in Trees : MoveBefore(t)
  \/ \E t \in Trees : MoveBeforeEnd(t)
  \/ \E t \in Trees : MoveOntop(t)
  \/ \E t \in Trees : MoveOut(t)
  \/ \E t \in Trees : MoveIn(t)
  \/ \E t \in Trees : MoveInAsNthChild(t)
  \/ \E t \in Trees : SortRoots(t)
  \/ \E t \in Trees : SortChildrenOf(t)
  \/ \E t \in Trees : SwapSibling(t)
  \/ \E t \in Trees : Swap(t)

Spec == Init /\ [][Next]_vars

\* ---------------------------------------------------------------- reading a tree
\* The member functions that only read are applied to trees built beforehand: the
\* second specification starts from any tree that at most MaxNodes calls of insert
\* and append_child build in tree 1, and its steps are the reading calls.
BuildSteps == [op : {"insert", "append_child"}, at : 1 .. MaxNodes, x : Values]

Programs == UNION {[1 .. k -> BuildSteps] : k \in 0 .. MaxNodes}

\* one call of a building program; at numbers the nodes in pre-order, and a number
\* past the last node is end() for insert and no call for append_child
BuildStep(m, step) ==
  LET nodes == PreOrder(m.h, 1)
  IN IF step.at <= Len(nodes)
     THEN IF step.op = "insert" THEN insert(m, 1, nodes[step.at], step.x)
          ELSE append_child(m, 1, nodes[step.at], step.x)
     ELSE IF step.op = "insert" THEN insert(m, 1, End(1), step.x) ELSE m

RECURSIVE Build(_, _, _)
Build(m, prog, i) ==
  IF i > Len(prog) THEN m ELSE Build(BuildStep(m, prog[i]), prog, i + 1)

ReadInit ==
  \E prog \in Programs :
     \E m \in {Build([h |-> head_initialise_(head_initialise_(
                                [n \in Ids \cup {NULL} |-> tree_node_], 1), 2),
                      live |-> {}, ret |-> NULL], prog, 1)} :
        \E f \in {Naming(m.h, m.live)} :
           /\ heap = Renamed(m.h, f)
           /\ live = {f[n] : n \in m.live}
           /\ last = Call("tree", 1, NULL, NULL, <<>>, NULL)
           /\ NothingSelected

MaxPathLen == 3
MaxStep == 2
Paths == UNION {[1 .. k -> 0 .. MaxStep] : k \in 1 .. MaxPathLen}

\* for (it = begin(); it != end(); ++it): the nodes visited and where the walk ended
Walk(t) ==
  /\ \E po \in {PreOrder(heap, t)} :
        last' = Call("pre_order", t, NULL, NULL, po,
                     IF po = <<>> THEN Begin(heap, t)
                     ELSE PreNext(heap, po[Len(po)], FALSE))
  /\ UNCHANGED <<heap, live, selection, multiple_selection>>

PathFromIterator(t) ==
  /\ \E iter \in Reach(heap, t) : \E top \in AncOrSelf(heap, iter) :
        last' = Call("path_from_iterator", t, iter, top,
                     path_from_iterator(heap, t, iter, top), NULL)
  /\ UNCHANGED <<heap, live, selection, multiple_selection>>

IteratorFromPath(t) ==
  /\ \E top \in Reach(heap, t), path \in Paths :
        last' = Call("iterator_from_path", t, NULL, top, path,
                     iterator_from_path(heap, path, top))
  /\ UNCHANGED <<heap, live, selection, multiple_selection>>

ReadNext ==
  \/ Walk(1)
  \/ PathFromIterator(1)
  \/ IteratorFromPath(1)

ReadSpec == ReadInit /\ [][ReadNext]_vars

\* ---------------------------------------------------------------- comparing subtrees
\* The comparisons are applied to trees built beforehand: every forest of at most
\* MaxCmpNodes nodes with data from Values, built in tree 1 in pre-order, a node
\* being inserted before end() as a new root or appended as the last child of the
\* node built before it or of one of that node's ancestors.
MaxCmpNodes == 4

EmptyTrees ==
  [h |-> head_initialise_(head_initialise_([n \in Ids \cup {NULL} |-> tree_node_], 1), 2),
   live |-> {}, ret |-> NULL]

\* the machines one more call leaves, the data of the new node taken from vals
Grow(m, vals) ==
  {insert(m, 1, End(1), x) : x \in vals}
    \cup (IF m.ret = NULL THEN {}
          ELSE {append_child(m, 1, p, x) : p \in AncOrSelf(m.h, m.ret), x \in vals})

RECURSIVE Forests(_, _)
\* the machines holding a forest of k nodes in tree 1
Forests(k, vals) ==
  IF k = 0 THEN {EmptyTrees} ELSE UNION {Grow(m, vals) : m \in Forests(k - 1, vals)}

\* the BinaryPredicate arguments: std::equal_to, std::less, std::less_equal
Predicates == {"equal_to", "less", "less_equal"}

Fun(fun, x, y) ==
  CASE fun = "equal_to" -> x = y
    [] fun = "less" -> x < y
    [] fun = "less_equal" -> x <= y

\* tree::number_of_children(it): one for first_child and one more for every
\* next_sibling that is not null
number_of_children(h, it) ==
  IF h[it].first_child = NULL THEN 0 ELSE Len(ChainFrom(h, h[it].first_child, Fuel))

RECURSIVE CountToLast(_, _, _)
\* the loop of iterator_base::number_of_children
CountToLast(h, pos, lst) ==
  IF pos = lst \/ pos = NULL THEN 0 ELSE 1 + CountToLast(h, h[pos].next_sibling, lst)

\* iterator_base::number_of_children(): counts from first_child up to last_child
iterator_number_of_children(h, node) ==
  IF h[node].first_child = NULL THEN 0
  ELSE 1 + CountToLast(h, h[node].first_child, h[node].last_child)

\* tree::is_valid of tree t
is_valid(t, node) == ~(node = NULL \/ node = feet(t) \/ node = head(t))

\* sibling_iterator(tree_node*): the node and, by set_parent_, its parent
sibling_iterator(h, tn) ==
  [node |-> tn, parent_ |-> IF tn = NULL THEN NULL ELSE h[tn].parent]

\* tree::end(pos): the null sibling_iterator that remembers pos as its parent
end_at(pos) == [node |-> NULL, parent_ |-> pos]

\* tree::begin(pos): the first child, or end(pos) when there is none
begin_at(h, pos) ==
  IF h[pos].first_child = NULL THEN end_at(pos)
  ELSE sibling_iterator(h, h[pos].first_child)

\* sibling_iterator::range_last
range_last(h, it) == h[it.parent_].last_child

\* pre_order_iterator(const sibling_iterator&): the node itself, and for a null
\* node what follows the last node of the range (or the parent) with children skipped
pre_order_iterator(h, other) ==
  IF other.node # NULL THEN other.node
  ELSE PreNext(h, IF range_last(h, other) # NULL THEN range_last(h, other)
                  ELSE other.parent_, TRUE)

RECURSIVE EqualLoopShapeBlind(_, _, _, _, _, _)
EqualLoopShapeBlind(h, t, one, two, three, fun) ==
  IF ~(one # pre_order_iterator(h, two) /\ is_valid(t, three)) THEN TRUE
  ELSE IF ~Fun(fun, h[one].data, h[three].data) THEN FALSE
  ELSE EqualLoopShapeBlind(h, t, PreNext(h, one, FALSE), two, PreNext(h, three, FALSE), fun)

RECURSIVE EqualLoop(_, _, _, _, _, _)
\* the loop of tree::equal; two is the sibling_iterator that every comparison
\* with the pre_order_iterator one converts
EqualLoop(h, t, one, two, three, fun) ==
  IF ~(one # pre_order_iterator(h, two) /\ is_valid(t, three)) THEN TRUE
  ELSE IF ~Fun(fun, h[one].data, h[three].data) THEN FALSE
  ELSE IF iterator_number_of_children(h, one) # iterator_number_of_children(h, three)
       THEN FALSE
  ELSE EqualLoop(h, t, PreNext(h, one, FALSE), two, PreNext(h, three, FALSE), fun)

\* tree::equal(one_, two, three_, fun) called with sibling_iterators
equal(h, t, one_, two, three_, fun) ==
  EqualLoop(h, t, pre_order_iterator(h, one_), two, pre_order_iterator(h, three_), fun)

\* tree::equal_subtree(one_, two_, fun)
equal_subtree(h, t, one, two, fun) ==
  IF ~Fun(fun, h[one].data, h[two].data) THEN FALSE
  ELSE IF number_of_children(h, one) # number_of_children(h, two) THEN FALSE
  ELSE equal(h, t, begin_at(h, one), end_at(one), begin_at(h, two), fun)

CompareInit ==
  \E k \in 0 .. MaxCmpNodes : \E m \in Forests(k, Values) :
     \E f \in {Naming(m.h, m.live)} :
        /\ heap = Renamed(m.h, f)
        /\ live = {f[n] : n \in m.live}
        /\ last = Call("tree", 1, NULL, NULL, <<>>, NULL)
        /\ NothingSelected

\* equal_subtree(a, b, fun) on two nodes of tree t; the call is remembered with its
\* predicate and its answer
EqualSubtree(t) ==
  /\ \E a \in Reach(heap, t), b \in Reach(heap, t), fun \in Predicates :
        last' = Call("equal_subtree", t, a, b, <<>>,
                     [fun |-> fun, equal |-> equal_subtree(heap, t, a, b, fun)])
  /\ UNCHANGED <<heap, live, selection, multiple_selection>>

CompareNext == EqualSubtree(1)

CompareSpec == CompareInit /\ [][CompareNext]_vars

\* ---------------------------------------------------------------- merging
\* insert(sibling_iterator position, const T& x): a null position is the end of the
\* children of position.parent_
insert_sibling(m, t, position, x) ==
  Bind(Alloc(m, x), LAMBDA a :
  LET tmp == a.ret
      h0 == Set(a.h, tmp, "next_sibling", position.node)
      h1 == IF position.node = NULL
            THEN Bind(Set(Set(h0, tmp, "parent", position.parent_),
                          tmp, "prev_sibling", range_last(h0, position)), LAMBDA g :
                   Set(g, g[tmp].parent, "last_child", tmp))
            ELSE [h0 EXCEPT ![tmp].parent = h0[position.node].parent,
                            ![tmp].prev_sibling = h0[position.node].prev_sibling,
                            ![position.node].prev_sibling = tmp]
      h2 == IF h1[tmp].prev_sibling = NULL
            THEN IF h1[tmp].parent # NULL
                 THEN Set(h1, h1[tmp].parent, "first_child", tmp) ELSE h1
            ELSE Set(h1, h1[tmp].prev_sibling, "next_sibling", tmp)
  IN With(a, IncCounts(h2, t, tmp)))

\* insert_subtree(sibling_iterator position, subtree): a dummy, replaced by a copy
insert_subtree_sibling(m, t, position, from) ==
  Bind(insert_sibling(m, t, position, DefaultValue), LAMBDA m1 :
     replace(m1, t, m1.ret, from))

RECURSIVE Find(_, _, _, _)
\* std::find(first, last, x) over sibling_iterators: the first node of the range
\* that holds x, or last
Find(h, first, lst, x) ==
  IF first = lst \/ first = NULL THEN lst
  ELSE IF h[first].data = x THEN first
  ELSE Find(h, h[first].next_sibling, lst, x)

RECURSIVE merge(_, _, _, _, _, _, _)
\* merge(to1, to2, from1, from2, duplicate_leaves) of tree t; the four iterators
\* are sibling_iterators (node, parent_), from1 is the node the loop stands at
merge(m, t, to1, to2, from1, from2, duplicate_leaves) ==
  IF from1 = from2.node THEN m
  ELSE Bind(Find(m.h, to1.node, to2.node, m.h[from1].data), LAMBDA fnd :
       Bind(IF fnd # to2.node
            THEN IF m.h[from1].first_child = NULL
                 THEN IF duplicate_leaves
                      THEN append_child(m, t, m.h[to1.node].parent, m.h[from1].data)
                      ELSE m
                 ELSE merge(m, t, begin_at(m.h, fnd), end_at(fnd),
                            begin_at(m.h, from1).node, end_at(from1), duplicate_leaves)
            ELSE insert_subtree_sibling(m, t, to2, from1), LAMBDA m1 :
         merge(m1, t, to1, to2, m1.h[from1].next_sibling, from2, duplicate_leaves)))

\* ++ on a sibling_iterator
sibling_increment(h, it) ==
  [node |-> IF it.node # NULL THEN h[it.node].next_sibling ELSE NULL,
   parent_ |-> it.parent_]

\* merge(iterator to, iterator from, duplicate_leaves): the two ranges of one node
merge_top(m, t, to, from, duplicate_leaves) ==
  merge(m, t, sibling_iterator(m.h, to), sibling_increment(m.h, sibling_iterator(m.h, to)),
        from, sibling_increment(m.h, sibling_iterator(m.h, from)), duplicate_leaves)

\* room in the address pool for copies of the nodes of S, for the dummy of
\* insert_subtree and for the node replace allocates before it frees the dummy
CanMerge(S) ==
  /\ Cardinality(live) <= MaxCmpNodes
  /\ Cardinality(live) + Cardinality(S) + 1 <= PoolSize

\* merge(begin(to), end(to), begin(from), end(from), duplicate_leaves): the children
\* of from are merged into the children of to
MergeChildren(t) ==
  /\ Consistent
  /\ \E to \in Reach(heap, t), from \in Reach(heap, t), duplicate_leaves \in BOOLEAN :
        /\ Apart(heap, to, from)
        /\ heap[from].first_child # NULL
        /\ CanMerge(Desc(heap, from))
        /\ \E m \in {merge(M, t, begin_at(heap, to), end_at(to),
                           begin_at(heap, from).node, end_at(from), duplicate_leaves)} :
              Commit(m, "merge", t)

\* merge(to, from, duplicate_leaves); with duplicate_leaves set the two nodes are
\* taken under different parents, for under one parent the loop can run into the
\* leaves it appends itself and not end
MergeTop(t) ==
  /\ Consistent
  /\ \E to \in Reach(heap, t), from \in Reach(heap, t), duplicate_leaves \in BOOLEAN :
        /\ Apart(heap, to, from)
        /\ duplicate_leaves => heap[to].parent # heap[from].parent
        /\ CanMerge(Below(heap, from, Fuel))
        /\ \E m \in {merge_top(M, t, to, from, duplicate_leaves)} :
              Commit(m, "merge_top", t)

MergeNext ==
  \/ MergeChildren(1)
  \/ MergeTop(1)

\* merges applied to the forests of at most MaxCmpNodes nodes
MergeSpec == CompareInit /\ [][MergeNext]_vars

\* ---------------------------------------------------------------- depth
\* max_depth is applied to every forest of at most MaxDepthNodes nodes.
MaxDepthNodes == 6

\* std::max of two size_t values (a value below zero stands for 2^64 + v)
UMax(a, b) ==
  IF (a < 0) = (b < 0) THEN (IF a < b THEN b ELSE a)
  ELSE IF a < 0 THEN a ELSE b

RECURSIVE ClimbRight(_, _, _)
\* the do-while of max_depth(pos): up while there is no next sibling; tmp is null
\* when the climb ran out of parents
ClimbRight(h, tmp, curdepth) ==
  IF h[tmp].parent = NULL THEN [tmp |-> NULL, curdepth |-> curdepth]
  ELSE IF h[h[tmp].parent].next_sibling = NULL
       THEN ClimbRight(h, h[tmp].parent, curdepth - 1)
  ELSE [tmp |-> h[tmp].parent, curdepth |-> curdepth - 1]

RECURSIVE MaxDepthWalk(_, _, _, _, _)
\* the while (true) loop of max_depth(pos)
MaxDepthWalk(h, pos, tmp, curdepth, maxdepth) ==
  IF h[tmp].first_child # NULL
  THEN MaxDepthWalk(h, pos, h[tmp].first_child, curdepth + 1,
                    UMax(curdepth + 1, maxdepth))
  ELSE IF tmp = pos THEN maxdepth
  ELSE Bind(IF h[tmp].next_sibling = NULL THEN ClimbRight(h, tmp, curdepth)
            ELSE [tmp |-> tmp, curdepth |-> curdepth], LAMBDA up :
         IF up.tmp = NULL \/ up.tmp = pos THEN maxdepth
         ELSE MaxDepthWalk(h, pos, h[up.tmp].next_sibling, up.curdepth, maxdepth))

\* tree::max_depth(const iterator_base& pos) of tree t
max_depth_at(h, t, pos) ==
  IF pos = NULL \/ pos = head(t) \/ pos = feet(t) THEN -1
  ELSE MaxDepthWalk(h, pos, pos, 0, 0)

RECURSIVE MaxDepthLoop(_, _, _, _)
\* the loop of max_depth() over the roots
MaxDepthLoop(h, t, it, maxd) ==
  IF it = feet(t) THEN maxd
  ELSE MaxDepthLoop(h, t, h[it].next_sibling, UMax(maxd, max_depth_at(h, t, it)))

\* tree::max_depth() of tree t: size_t maxd = -1, then the loop
max_depth(h, t) == MaxDepthLoop(h, t, h[head(t)].next_sibling, -1)

DepthInit ==
  \E k \in 0 .. MaxDepthNodes : \E m \in Forests(k, {1}) :
     \E f \in {Naming(m.h, m.live)} :
        /\ heap = Renamed(m.h, f)
        /\ live = {f[n] : n \in m.live}
        /\ last = Call("tree", 1, NULL, NULL, <<>>, NULL)
        /\ NothingSelected

MaxDepth(t) ==
  /\ last' = Call("max_depth", t, NULL, NULL, <<>>, max_depth(heap, t))
  /\ UNCHANGED <<heap, live, selection, multiple_selection>>

MaxDepthAt(t) ==
  /\ \E pos \in Reach(heap, t) :
        last' = Call("max_depth_at", t, pos, NULL, <<>>, max_depth_at(heap, t, pos))
  /\ UNCHANGED <<heap, live, selection, multiple_selection>>

\* ---------------------------------------------------------------- fixed-depth iterator
\* a < b on two size_t values (a value below zero stands for 2^64 + v)
ULess(a, b) == IF (a < 0) = (b < 0) THEN a < b ELSE b < 0

RECURSIVE FixedSkipChildless(_, _)
\* the loop while (node->first_child == 0): to the right up to a node with a child;
\* up is set when the chain ended first (goto upper)
FixedSkipChildless(h, node) ==
  IF h[node].first_child # NULL THEN [node |-> node, up |-> FALSE]
  ELSE IF h[node].next_sibling = NULL THEN [node |-> node, up |-> TRUE]
  ELSE FixedSkipChildless(h, h[node].next_sibling)

RECURSIVE FixedDescend(_, _, _)
\* the loop while (relative_depth < 0 && node->first_child != 0)
FixedDescend(h, node, relative_depth) ==
  IF ULess(relative_depth, 0) /\ h[node].first_child # NULL
  THEN FixedDescend(h, h[node].first_child, relative_depth + 1)
  ELSE [node |-> node, relative_depth |-> relative_depth]

RECURSIVE FixedUpper(_, _, _, _)
RECURSIVE FixedLower(_, _, _, _)
\* from the label upper: the do-while that climbs, then on to lower
FixedUpper(h, node, top_node, relative_depth) ==
  IF node = top_node THEN NULL
  ELSE IF h[node].parent = NULL THEN NULL
  ELSE IF h[h[node].parent].next_sibling = NULL
       THEN FixedUpper(h, h[node].parent, top_node, relative_depth - 1)
  ELSE FixedLower(h, h[node].parent, top_node, relative_depth - 1)

\* from the label lower; relative_depth is a size_t
FixedLower(h, node, top_node, relative_depth) ==
  Bind(FixedSkipChildless(h, h[node].next_sibling), LAMBDA s :
    IF s.up THEN FixedUpper(h, s.node, top_node, relative_depth)
    ELSE Bind(FixedDescend(h, s.node, relative_depth), LAMBDA d :
           IF ULess(d.relative_depth, 0)
           THEN IF h[d.node].next_sibling = NULL
                THEN FixedUpper(h, d.node, top_node, d.relative_depth)
                ELSE FixedLower(h, d.node, top_node, d.relative_depth)
           ELSE d.node))

\* fixed_depth_iterator::operator++ of the iterator (node, top_node)
fixed_depth_increment(h, node, top_node) ==
  IF h[node].next_sibling # NULL THEN h[node].next_sibling
  ELSE FixedUpper(h, node, top_node, 0)

\* tree::next_at_same_depth(position): a fixed_depth_iterator without top node
next_at_same_depth(h, position) == fixed_depth_increment(h, position, NULL)

NextAtSameDepth(t) ==
  /\ \E position \in Reach(heap, t) :
        last' = Call("next_at_same_depth", t, position, NULL, <<>>,
                     next_at_same_depth(heap, position))
  /\ UNCHANGED <<heap, live, selection, multiple_selection>>

\* ++ on a fixed-depth iterator below its top node (as begin_fixed makes them)
FixedDepthIncrement(t) ==
  /\ \E top_node \in Reach(heap, t) : \E node \in Desc(heap, top_node) :
        last' = Call("fixed_depth_increment", t, node, top_node, <<>>,
                     fixed_depth_increment(heap, node, top_node))
  /\ UNCHANGED <<heap, live, selection, multiple_selection>>

DepthNext ==
  \/ MaxDepth(1)
  \/ MaxDepthAt(1)
  \/ NextAtSameDepth(1)
  \/ FixedDepthIncrement(1)

DepthSpec == DepthInit /\ [][DepthNext]_vars

\* ---------------------------------------------------------------- expanded, visible
\* a node with the TREE_HH_EXTRA fields expanded, visible and count_expanded: the
\* constructors leave count_expanded zero
ExtraNode(node, e, v) ==
  [parent |-> node.parent, first_child |-> node.first_child,
   last_child |-> node.last_child, prev_sibling |-> node.prev_sibling,
   next_sibling |-> node.next_sibling, data |-> node.data, count |-> node.count,
   expanded |-> e, visible |-> v, count_expanded |-> 0]

\* head_initialise_ with the flags it gives to head and feet
head_initialise_extra(h, t) ==
  Bind(head_initialise_(h, t), LAMBDA h1 :
     [h1 EXCEPT ![head(t)] = ExtraNode(h1[head(t)], TRUE, TRUE),
                ![feet(t)] = ExtraNode(h1[feet(t)], FALSE, TRUE)])

RECURSIVE IncExpandedLoop(_, _, _)
\* the while (parent) loop that follows an insertion, for count_expanded:
\*   parent_expanded &= parent->expanded; if (parent_expanded) ++parent->count_expanded
IncExpandedLoop(h, parent, parent_expanded) ==
  IF parent = NULL THEN [h |-> h, parent_expanded |-> parent_expanded]
  ELSE Bind(parent_expanded /\ h[parent].expanded, LAMBDA pe :
         IncExpandedLoop(IF pe THEN [h EXCEPT ![parent].count_expanded = @ + 1] ELSE h,
                         h[parent].parent, pe))

\* the expanded part of the TREE_HH_EXTRA blocks of insert / append_child for the new
\* node tmp:  tmp->expanded = head->expanded; tmp->visible = head->visible;  the loop;
\* if (parent_expanded) ++head->count_expanded
IncExpanded(h, t, tmp) ==
  Bind([h EXCEPT ![tmp] = ExtraNode(@, h[head(t)].expanded, h[head(t)].visible)],
       LAMBDA h1 :
  Bind(IncExpandedLoop(h1, h1[tmp].parent, TRUE), LAMBDA r :
     IF r.parent_expanded THEN [r.h EXCEPT ![head(t)].count_expanded = @ + 1]
     ELSE r.h))

\* insert(position, x) with its expanded bookkeeping
insert_extra(m, t, position, x) ==
  Bind(insert(m, t, position, x), LAMBDA m1 : With(m1, IncExpanded(m1.h, t, m1.ret)))

\* append_child(position, x) with its expanded bookkeeping
append_child_extra(m, t, position, x) ==
  Bind(append_child(m, t, position, x), LAMBDA m1 :
     With(m1, IncExpanded(m1.h, t, m1.ret)))

RECURSIVE CollapseLoop(_, _, _)
\* collapse(it):  while (parent && parent->expanded)
\*                  parent->count_expanded -= it.node->count_expanded
\* gives the heap and the parent the loop stopped at
CollapseLoop(h, parent, it) ==
  IF parent # NULL /\ h[parent].expanded
  THEN CollapseLoop([h EXCEPT ![parent].count_expanded = @ - h[it].count_expanded],
                    h[parent].parent, it)
  ELSE [h |-> h, parent |-> parent]

\* size_t collapse(const iterator_base& it)
collapse(m, t, it) ==
  Bind(CollapseLoop(m.h, m.h[it].parent, it), LAMBDA r :
  Bind(IF r.parent = NULL
       THEN [r.h EXCEPT ![head(t)].count_expanded = @ - r.h[it].count_expanded]
       ELSE r.h, LAMBDA h1 :
  Bind([h1 EXCEPT ![it].count_expanded = 0, ![it].expanded = FALSE], LAMBDA h2 :
     Ret(With(m, h2), h2[head(t)].count_expanded))))

\* the children loop of expand(it) left out
ExpandChildrenForgotten(h, it, child) == h

RECURSIVE ExpandChildren(_, _, _)
\* expand(it):  while (child) it.node->count_expanded += child->count_expanded + 1
ExpandChildren(h, it, child) ==
  IF child = NULL THEN h
  ELSE ExpandChildren([h EXCEPT ![it].count_expanded = @ + h[child].count_expanded + 1],
                      it, h[child].next_sibling)

RECURSIVE ExpandLoop(_, _, _)
\* expand(it):  while (parent && parent->expanded)
\*                parent->count_expanded += it.node->count_expanded
ExpandLoop(h, parent, it) ==
  IF parent # NULL /\ h[parent].expanded
  THEN ExpandLoop([h EXCEPT ![parent].count_expanded = @ + h[it].count_expanded],
                  h[parent].parent, it)
  ELSE [h |-> h, parent |-> parent]

\* size_t expand(const iterator_base& it)
expand(m, t, it) ==
  Bind(ExpandChildren(m.h, it, m.h[it].first_child), LAMBDA h0 :
  Bind([h0 EXCEPT ![it].expanded = TRUE], LAMBDA h1 :
  Bind(ExpandLoop(h1, h1[it].parent, it), LAMBDA r :
  Bind(IF r.parent = NULL
       THEN [r.h EXCEPT ![head(t)].count_expanded = @ + r.h[it].count_expanded]
       ELSE r.h, LAMBDA h2 :
     Ret(With(m, h2), h2[head(t)].count_expanded)))))

\* void set_expand_new(bool expand)
set_expand_new(m, t, expand_new) ==
  With(m, [m.h EXCEPT ![head(t)].expanded = expand_new])

RECURSIVE FilterCountAbove(_, _)
\* filter:  while (parent1) { ++parent1->count_expanded; parent1 = parent1->parent; }
FilterCountAbove(h, parent1) ==
  IF parent1 = NULL THEN h
  ELSE FilterCountAbove([h EXCEPT ![parent1].count_expanded = @ + 1], h[parent1].parent)

\* the while (parent) loop of filter left out
FilterParentsLeft(h, t, parent) == h

RECURSIVE FilterParents(_, _, _)
\* filter:  the while (parent) loop run for a visible node: a parent that is not
\* visible becomes visible and is counted in head and in its own ancestors; every
\* parent counts the visible node
FilterParents(h, t, parent) ==
  IF parent = NULL THEN h
  ELSE Bind(IF ~h[parent].visible
            THEN FilterCountAbove([h EXCEPT ![parent].visible = TRUE,
                                            ![head(t)].count_expanded = @ + 1],
                                  h[parent].parent)
            ELSE h, LAMBDA h1 :
         FilterParents([h1 EXCEPT ![parent].count_expanded = @ + 1], t,
                       h1[parent].parent))

\* the body of filter's loop for the node it; the predicate comp is the set of the
\* values it accepts
FilterVisit(h, t, it, comp) ==
  Bind(IF h[it].first_child # NULL
       THEN [h EXCEPT ![it].expanded = TRUE, ![it].count_expanded = 0]
       ELSE h, LAMBDA h1 :
  Bind([h1 EXCEPT ![it].visible = (h1[it].data \in comp)], LAMBDA h2 :
     IF h2[it].visible
     THEN FilterParents([h2 EXCEPT ![head(t)].count_expanded = @ + 1], t,
                        h2[it].parent)
     ELSE h2))

RECURSIVE FilterLoop(_, _, _, _, _)
\* filter:  while (it != end()) { ...; ++it; }
FilterLoop(h, t, it, comp, fuel) ==
  IF it = End(t) \/ it = NULL \/ fuel = 0 THEN h
  ELSE FilterLoop(FilterVisit(h, t, it, comp), t, PreNext(h, it, FALSE), comp,
                  fuel - 1)

\* size_t filter(StrictWeakFiltering comp)
filter(m, t, comp) ==
  Bind(FilterLoop([m.h EXCEPT ![head(t)].count_expanded = 0], t, Begin(m.h, t), comp,
                  Fuel), LAMBDA h :
     Ret(With(m, h), h[head(t)].count_expanded))

\* no expanded count of tree t has left the range a count of its nodes can have
ExpandedBounded(h, t) ==
  \A n \in Reach(h, t) \cup {head(t)} :
     h[n].count_expanded >= 0 /\ h[n].count_expanded <= MaxNodes

ExtraInit ==
  /\ heap = head_initialise_extra(head_initialise_([n \in Ids \cup {NULL} |-> tree_node_],
                                                   2), 1)
  /\ live = {}
  /\ last = Call("tree", 1, NULL, NULL, <<>>, NULL)
  /\ NothingSelected

ExtraInsert(t) ==
  /\ ExpandedBounded(heap, t)
  /\ \E pos \in Reach(heap, t) \cup {feet(t)}, x \in Values :
     /\ CanAlloc(1)
     /\ \E m \in {insert_extra(M, t, pos, x)} :
          Commit(m, "insert", t)

ExtraAppendChild(t) ==
  /\ ExpandedBounded(heap, t)
  /\ \E pos \in Reach(heap, t), x \in Values :
     /\ CanAlloc(1)
     /\ \E m \in {append_child_extra(M, t, pos, x)} :
          Commit(m, "append_child", t)

Collapse(t) ==
  /\ ExpandedBounded(heap, t)
  /\ \E it \in Reach(heap, t) :
     \E m \in {collapse(M, t, it)} :
          Commit(m, "collapse", t)

Expand(t) ==
  /\ ExpandedBounded(heap, t)
  /\ \E it \in Reach(heap, t) :
     \E m \in {expand(M, t, it)} :
          Commit(m, "expand", t)

SetExpandNew(t) ==
  /\ ExpandedBounded(heap, t)
  /\ \E expand_new \in BOOLEAN :
     \E m \in {set_expand_new(M, t, expand_new)} :
          Commit(m, "set_expand_new", t)

Filter(t) ==
  /\ ExpandedBounded(heap, t)
  /\ \E comp \in SUBSET Values :
     \E m \in {filter(M, t, comp)} :
          Commit(m, "filter", t)

\* the node never tested for visible: the step ends on whatever node comes next
ExpandedNextUnfiltered(h, node, skip, fuel) ==
  IF ~skip /\ h[node].first_child # NULL /\ h[node].expanded
  THEN h[node].first_child
  ELSE ClimbNext(h, node)

RECURSIVE ExpandedNext(_, _, _, _)
\* expanded_iterator::operator++ (skip = skip_current_children_): the loop goes on
\* until it stands on a visible node or has run off the tree
ExpandedNext(h, node, skip, fuel) ==
  IF node = NULL \/ fuel = 0 THEN node
  ELSE Bind(IF ~skip /\ h[node].first_child # NULL /\ h[node].expanded
            THEN h[node].first_child
            ELSE ClimbNext(h, node), LAMBDA nxt :
         IF nxt = NULL THEN NULL
         ELSE IF h[nxt].visible THEN nxt
         ELSE ExpandedNext(h, nxt, FALSE, fuel - 1))

\* tree::begin_expanded
begin_expanded(h, t) ==
  IF ~h[h[head(t)].next_sibling].visible
  THEN ExpandedNext(h, h[head(t)].next_sibling, FALSE, Fuel)
  ELSE h[head(t)].next_sibling

RECURSIVE ExpandedFrom(_, _, _, _)
\* for (it = node; it != stop; ++it): the nodes visited and the node the walk
\* ended at
ExpandedFrom(h, node, stop, fuel) ==
  IF node = stop \/ node = NULL \/ fuel = 0 THEN [visited |-> <<>>, at |-> node]
  ELSE Bind(ExpandedFrom(h, ExpandedNext(h, node, FALSE, Fuel), stop, fuel - 1),
            LAMBDA r : [visited |-> <<node>> \o r.visited, at |-> r.at])

ExpandedWalk(t) ==
  /\ \E r \in {ExpandedFrom(heap, begin_expanded(heap, t), feet(t), Fuel)} :
        last' = Call("expanded", t, NULL, NULL, r.visited, r.at)
  /\ UNCHANGED <<heap, live, selection, multiple_selection>>

ExtraNext ==
  \/ ExtraInsert(1)
  \/ ExtraAppendChild(1)
  \/ Collapse(1)
  \/ Expand(1)
  \/ SetExpandNew(1)
  \/ Filter(1)
  \/ ExpandedWalk(1)

ExtraSpec == ExtraInit /\ [][ExtraNext]_vars

\* ---------------------------------------------------------------- selection
\* The selection is the std::set<tree_selection> in its iteration order, a sequence of
\* ranges [begin, end].  toggle changes begin and end of stored ranges where they
\* stand, so a range keeps its place in the sequence while its key changes.

\* the indices passed to toggle
MaxIndex == 4

\* the mode bits of toggle
ModeBits == {"MK_CONTROL", "MK_SHIFT"}

\* <= on size_t; a negative v stands for 2^64 + v, so + 1 and - 1 wrap as they do there
ULessEq(a, b) == a = b \/ ULess(a, b)

tree_selection(begin, end) == [begin |-> begin, end |-> end]

\* s without its i-th range: selection.erase(iter)
Erased(s, i) == SubSeq(s, 1, i - 1) \o SubSeq(s, i + 1, Len(s))

\* std::set::insert: operator< compares begin only; a range whose begin is stored
\* already is not inserted, another goes before the first range with a greater begin
SetInsert(s, r) ==
  IF \E i \in 1 .. Len(s) : s[i].begin = r.begin THEN s
  ELSE Bind({i \in 1 .. Len(s) : ULess(r.begin, s[i].begin)}, LAMBDA greater :
         IF greater = {} THEN Append(s, r)
         ELSE Bind(CHOOSE i \in greater : \A j \in greater : i <= j, LAMBDA i :
                SubSeq(s, 1, i - 1) \o <<r>> \o SubSeq(s, i, Len(s))))

\* selection.push_back(r): the range is added to the set
push_back(s, r) == SetInsert(s, r)

RECURSIVE ToggleControl(_, _, _)
\* the for loop of the MK_CONTROL branch from the i-th range, and the push_back
\* that follows it when nothing was found
ToggleControl(s, i, index) ==
  IF i > Len(s) THEN push_back(s, tree_selection(index, index))
  ELSE IF s[i].begin = index /\ s[i].end = index THEN Erased(s, i)
  ELSE IF s[i].begin = index THEN [s EXCEPT ![i].begin = @ + 1]
  ELSE IF s[i].end = index THEN [s EXCEPT ![i].end = @ - 1]
  ELSE IF ULessEq(s[i].begin, index) /\ ULessEq(index, s[i].end)
       THEN SetInsert([s EXCEPT ![i].end = index - 1],
                      tree_selection(index + 1, s[i].end))
  ELSE IF s[i].begin - 1 = index THEN [s EXCEPT ![i].begin = @ - 1]
  ELSE IF s[i].end + 1 = index THEN [s EXCEPT ![i].end = @ + 1]
  ELSE ToggleControl(s, i + 1, index)

RECURSIVE ToggleShift(_, _, _, _)
\* the for loop of the MK_SHIFT block from the i-th range, and its push_back
ToggleShift(s, i, begin, end) ==
  IF i > Len(s) THEN push_back(s, tree_selection(begin, end))
  ELSE IF s[i].begin = begin THEN [s EXCEPT ![i].end = end]
  ELSE IF s[i].end = end THEN [s EXCEPT ![i].begin = begin]
  ELSE ToggleShift(s, i + 1, begin, end)

\* the first test of the sanitizing loop: the next range continues the i-th
SanitizeContinued(s, i) ==
  IF i < Len(s) /\ s[i].end + 1 = s[i + 1].begin
  THEN Erased([s EXCEPT ![i].end = s[i + 1].end], i + 1)
  ELSE s

\* the second test of the sanitizing loop: the next range lies within the i-th
SanitizeIncluded(s, i) ==
  IF i < Len(s) /\ ULessEq(s[i].begin, s[i + 1].begin)
                /\ ULessEq(s[i + 1].end, s[i].end)
  THEN Erased(s, i + 1)
  ELSE s

RECURSIVE Sanitize(_, _)
\* the sanitizing loop of toggle from the i-th range
Sanitize(s, i) ==
  IF i > Len(s) THEN s
  ELSE Sanitize(SanitizeIncluded(SanitizeContinued(s, i), i), i + 1)

\* void toggle(size_t index, size_t origin, uint32_t mode): the selection it leaves
\* of the selection s, multiple being multiple_selection
toggle(s, multiple, index, origin, mode) ==
  Bind(IF ~multiple \/ "MK_CONTROL" \notin mode
       THEN SetInsert(<<>>, tree_selection(index, index))
       ELSE ToggleControl(s, 1, index), LAMBDA s1 :
  Bind(IF "MK_SHIFT" \in mode /\ multiple
       THEN ToggleShift(s1, 1, IF ULess(index, origin) THEN index ELSE origin,
                        IF ULess(origin, index) THEN index ELSE origin)
       ELSE s1, LAMBDA s2 :
     IF multiple /\ Len(s2) > 1 THEN Sanitize(s2, 1) ELSE s2))

\* void select(): with multiple selection the one range { 0, head->count_expanded }
select(s, multiple, h, t) ==
  IF multiple THEN SetInsert(<<>>, tree_selection(0, h[head(t)].count_expanded)) ELSE s

\* void unselect()
unselect(s) == <<>>

\* every range has begin <= end and ends more than one index before the next begins
RangesApart(s) ==
  \A i \in 1 .. Len(s) :
     /\ ULessEq(s[i].begin, s[i].end)
     /\ i < Len(s) => ULess(s[i].end + 1, s[i + 1].begin)

RECURSIVE RootsOnly(_, _)
\* a tree of k top-level nodes made by k calls of insert(end(), 1)
RootsOnly(m, k) ==
  IF k = 0 THEN m ELSE RootsOnly(insert_extra(m, 1, feet(1), 1), k - 1)

SelectInit ==
  \E k \in 0 .. MaxNodes :
     \E m \in {RootsOnly([h |-> head_initialise_extra(head_initialise_(
                                   [n \in Ids \cup {NULL} |-> tree_node_], 2), 1),
                          live |-> {}, ret |-> NULL], k)} :
        /\ heap = m.h
        /\ live = m.live
        /\ last = Call("tree", 1, NULL, NULL, <<>>, NULL)
        /\ NothingSelected

SetMultipleSelection ==
  /\ RangesApart(selection)
  /\ \E multiple \in BOOLEAN : multiple_selection' = multiple
  /\ last' = Call("set_multiple_selection", 1, NULL, NULL, <<>>, NULL)
  /\ UNCHANGED <<heap, live, selection>>

Select ==
  /\ RangesApart(selection)
  /\ selection' = select(selection, multiple_selection, heap, 1)
  /\ last' = Call("select", 1, NULL, NULL, <<>>, NULL)
  /\ UNCHANGED <<heap, live, multiple_selection>>

Unselect ==
  /\ RangesApart(selection)
  /\ selection' = unselect(selection)
  /\ last' = Call("unselect", 1, NULL, NULL, <<>>, NULL)
  /\ UNCHANGED <<heap, live, multiple_selection>>

Toggle ==
  /\ RangesApart(selection)
  /\ \E index \in 0 .. MaxIndex, origin \in 0 .. MaxIndex, mode \in SUBSET ModeBits :
        selection' = toggle(selection, multiple_selection, index, origin, mode)
  /\ last' = Call("toggle", 1, NULL, NULL, <<>>, NULL)
  /\ UNCHANGED <<heap, live, multiple_selection>>

SelectNext ==
  \/ SetMultipleSelection
  \/ Select
  \/ Unselect
  \/ Toggle

SelectSpec == SelectInit /\ [][SelectNext]_vars

\* ---------------------------------------------------------------- traversals
\* The iterators are applied to the forests of the depth specification.

\* breadth_first_queued_iterator(tree_node* tn): the node and the queue holding it
breadth_first_queued_iterator(tn) == [node |-> tn, traversal_queue |-> <<tn>>]

\* tree::begin_breadth_first
begin_breadth_first(h, t) == breadth_first_queued_iterator(h[head(t)].next_sibling)

\* breadth_first_queued_iterator::operator++: the children are pushed, the front is
\* popped, the node is the new front or null
breadth_first_increment(h, it) ==
  Bind(Tail(it.traversal_queue \o Children(h, it.node)), LAMBDA q :
     [node |-> IF Len(q) > 0 THEN q[1] ELSE NULL, traversal_queue |-> q])

RECURSIVE BreadthFirstFrom(_, _, _)
\* the nodes met by  for (it; it != end_breadth_first(); ++it), the end iterator
\* holding the null node
BreadthFirstFrom(h, it, fuel) ==
  IF it.node = NULL \/ fuel = 0 THEN <<>>
  ELSE <<it.node>> \o BreadthFirstFrom(h, breadth_first_increment(h, it), fuel - 1)

\* the descent left out: the node stays where it is
DescendFirstStays(h, tmp, fuel) == tmp

RECURSIVE DescendFirst(_, _, _)
\* while (tmp->first_child) tmp = tmp->first_child
DescendFirst(h, tmp, fuel) ==
  IF fuel = 0 \/ h[tmp].first_child = NULL THEN tmp
  ELSE DescendFirst(h, h[tmp].first_child, fuel - 1)

\* tree::begin_post
begin_post(h, t) ==
  IF h[head(t)].next_sibling # feet(t)
  THEN DescendFirst(h, h[head(t)].next_sibling, Fuel)
  ELSE h[head(t)].next_sibling

\* post_order_iterator::operator++ (skip = skip_current_children_)
post_order_increment(h, node, skip) ==
  IF h[node].next_sibling = NULL THEN h[node].parent
  ELSE IF skip THEN h[node].next_sibling
  ELSE DescendFirst(h, h[node].next_sibling, Fuel)

RECURSIVE PostOrderFrom(_, _, _, _)
\* for (it = node; it != stop; ++it): the nodes visited and the node the walk ended
\* at, which is stop unless the walk fell off the tree or did not end
PostOrderFrom(h, node, stop, fuel) ==
  IF node = stop \/ node = NULL \/ fuel = 0 THEN [visited |-> <<>>, at |-> node]
  ELSE Bind(PostOrderFrom(h, post_order_increment(h, node, FALSE), stop, fuel - 1),
            LAMBDA r : [visited |-> <<node>> \o r.visited, at |-> r.at])

\* tree::begin_leaf() and tree::begin_leaf(top): a leaf_iterator (node, top_node)
leaf_iterator(tn, top) == [node |-> tn, top_node |-> top]

begin_leaf(h, t) ==
  leaf_iterator(IF h[head(t)].next_sibling # feet(t)
                THEN DescendFirst(h, h[head(t)].next_sibling, Fuel)
                ELSE h[head(t)].next_sibling, NULL)

begin_leaf_at(h, top) == leaf_iterator(DescendFirst(h, top, Fuel), top)

\* tree::end_leaf() and tree::end_leaf(top)
end_leaf(t) == leaf_iterator(feet(t), NULL)
end_leaf_at(top) == leaf_iterator(top, top)

RECURSIVE LeafClimb(_, _, _)
\* leaf_iterator::operator++: the loop  while (node->next_sibling == 0); done tells
\* that the loop returned from operator++
LeafClimb(h, node, top_node) ==
  IF h[node].next_sibling # NULL THEN [node |-> node, done |-> FALSE]
  ELSE IF h[node].parent = NULL THEN [node |-> node, done |-> TRUE]
  ELSE IF top_node # NULL /\ h[node].parent = top_node
       THEN [node |-> h[node].parent, done |-> TRUE]
  ELSE LeafClimb(h, h[node].parent, top_node)

\* leaf_iterator::operator++
leaf_increment(h, it) ==
  IF h[it.node].first_child # NULL
  THEN leaf_iterator(DescendFirst(h, it.node, Fuel), it.top_node)
  ELSE Bind(LeafClimb(h, it.node, it.top_node), LAMBDA c :
         IF c.done THEN leaf_iterator(c.node, it.top_node)
         ELSE leaf_iterator(DescendFirst(h, h[c.node].next_sibling, Fuel),
                            it.top_node))

RECURSIVE LeafFrom(_, _, _, _)
\* for (it; it != stop; ++it), the leaf iterators compared by their nodes: the nodes
\* visited and the node the walk ended at
LeafFrom(h, it, stop, fuel) ==
  IF it.node = stop.node \/ it.node = NULL \/ fuel = 0
  THEN [visited |-> <<>>, at |-> it.node]
  ELSE Bind(LeafFrom(h, leaf_increment(h, it), stop, fuel - 1), LAMBDA r :
         [visited |-> <<it.node>> \o r.visited, at |-> r.at])

BreadthFirstWalk(t) ==
  /\ \E bf \in {BreadthFirstFrom(heap, begin_breadth_first(heap, t), Fuel)} :
        last' = Call("breadth_first", t, NULL, NULL, bf, NULL)
  /\ UNCHANGED <<heap, live, selection, multiple_selection>>

PostOrderWalk(t) ==
  /\ \E r \in {PostOrderFrom(heap, begin_post(heap, t), feet(t), Fuel)} :
        last' = Call("post_order", t, NULL, NULL, r.visited, r.at)
  /\ UNCHANGED <<heap, live, selection, multiple_selection>>

LeafWalk(t) ==
  /\ \E r \in {LeafFrom(heap, begin_leaf(heap, t), end_leaf(t), Fuel)} :
        last' = Call("leaf", t, NULL, NULL, r.visited, r.at)
  /\ UNCHANGED <<heap, live, selection, multiple_selection>>

LeafWalkBelow(t) ==
  /\ \E top \in Reach(heap, t) :
     \E r \in {LeafFrom(heap, begin_leaf_at(heap, top), end_leaf_at(top), Fuel)} :
        last' = Call("leaf_below", t, top, NULL, r.visited, r.at)
  /\ UNCHANGED <<heap, live, selection, multiple_selection>>

\* the depths asked of begin_fixed
MaxFixedDepth == 3

RECURSIVE BeginFixedUp(_, _, _, _)
\* begin_fixed: the do-while that walks up until a node has a next sibling; thrown
\* tells that it threw std::range_error
BeginFixedUp(h, tmp, top_node, curdepth) ==
  IF tmp = top_node \/ h[tmp].parent = NULL
  THEN [tmp |-> tmp, curdepth |-> curdepth, thrown |-> TRUE]
  ELSE IF h[h[tmp].parent].next_sibling = NULL
       THEN BeginFixedUp(h, h[tmp].parent, top_node, curdepth - 1)
  ELSE [tmp |-> h[tmp].parent, curdepth |-> curdepth - 1, thrown |-> FALSE]

RECURSIVE BeginFixedRight(_, _, _, _, _)
\* begin_fixed:  while (tmp->first_child == 0) { if (tmp->next_sibling == 0) walk up;
\*                                               tmp = tmp->next_sibling; }
BeginFixedRight(h, tmp, top_node, curdepth, fuel) ==
  IF h[tmp].first_child # NULL \/ fuel = 0
  THEN [tmp |-> tmp, curdepth |-> curdepth, thrown |-> FALSE]
  ELSE IF h[tmp].next_sibling = NULL
       THEN Bind(BeginFixedUp(h, tmp, top_node, curdepth), LAMBDA u :
              IF u.thrown THEN u
              ELSE BeginFixedRight(h, h[u.tmp].next_sibling, top_node, u.curdepth,
                                   fuel - 1))
  ELSE BeginFixedRight(h, h[tmp].next_sibling, top_node, curdepth, fuel - 1)

RECURSIVE BeginFixedDown(_, _, _, _, _, _)
\* begin_fixed:  while (curdepth < dp), curdepth a size_t
BeginFixedDown(h, tmp, top_node, curdepth, dp, fuel) ==
  IF ~ULess(curdepth, dp) \/ fuel = 0
  THEN [tmp |-> tmp, curdepth |-> curdepth, thrown |-> FALSE]
  ELSE Bind(BeginFixedRight(h, tmp, top_node, curdepth, Fuel), LAMBDA r :
         IF r.thrown THEN r
         ELSE BeginFixedDown(h, h[r.tmp].first_child, top_node, r.curdepth + 1, dp,
                             fuel - 1))

RECURSIVE WalkBack(_, _)
\* while (tmp->prev_sibling != 0) tmp = tmp->prev_sibling
WalkBack(h, tmp) ==
  IF h[tmp].prev_sibling = NULL THEN tmp ELSE WalkBack(h, h[tmp].prev_sibling)

\* tree::begin_fixed(pos, dp, walk_back): the node of the iterator returned, or
\* RANGE_ERROR for the std::range_error thrown
begin_fixed(h, pos, dp, walk_back) ==
  Bind(BeginFixedDown(h, pos, pos, 0, dp, Fuel * Fuel), LAMBDA r :
     IF r.thrown THEN RANGE_ERROR
     ELSE IF walk_back THEN WalkBack(h, r.tmp) ELSE r.tmp)

BeginFixed(t) ==
  /\ \E pos \in Reach(heap, t), dp \in 0 .. MaxFixedDepth, walk_back \in BOOLEAN :
        last' = Call("begin_fixed", t, pos, dp, <<walk_back>>,
                     begin_fixed(heap, pos, dp, walk_back))
  /\ UNCHANGED <<heap, live, selection, multiple_selection>>

RECURSIVE InSubtreeLoop(_, _, _, _, _)
\* is_in_subtree(it, begin, end):  pre_order_iterator tmp = begin;
\* while (tmp != end) { if (tmp == it) return true; ++tmp; } return false;
InSubtreeLoop(h, it, tmp, end, fuel) ==
  IF tmp = end \/ tmp = NULL \/ fuel = 0 THEN FALSE
  ELSE IF tmp = it THEN TRUE
  ELSE InSubtreeLoop(h, it, PreNext(h, tmp, FALSE), end, fuel - 1)

\* is_in_subtree(it, top): first the sibling_iterator of top, last the one after it;
\* both reach the loop as iterator_base, so only their nodes are used
is_in_subtree(h, it, top) ==
  InSubtreeLoop(h, it, sibling_iterator(h, top).node,
                sibling_increment(h, sibling_iterator(h, top)).node, Fuel)

\* the node a null sibling_iterator is replaced by before the increment: the last
\* child of its parent, or the parent when there is no child
EndBase(h, other) ==
  IF range_last(h, other) # NULL THEN range_last(h, other) ELSE other.parent_

\* post_order_iterator(const sibling_iterator&)
post_order_iterator(h, other) ==
  IF other.node # NULL THEN other.node
  ELSE post_order_increment(h, EndBase(h, other), TRUE)

\* leaf_iterator(const sibling_iterator&): top_node is null
leaf_iterator_of(h, other) ==
  IF other.node # NULL THEN other.node
  ELSE leaf_increment(h, leaf_iterator(EndBase(h, other), NULL)).node

IsInSubtree(t) ==
  /\ \E it \in Reach(heap, t), top \in Reach(heap, t) :
        last' = Call("is_in_subtree", t, it, top, <<>>, is_in_subtree(heap, it, top))
  /\ UNCHANGED <<heap, live, selection, multiple_selection>>

\* the end of the children of p converted to a pre-order, post-order, leaf iterator
FromSiblingEnd(t) ==
  /\ \E p \in Reach(heap, t) :
        last' = Call("end_of_children", t, p, NULL,
                     <<pre_order_iterator(heap, end_at(p)),
                       post_order_iterator(heap, end_at(p)),
                       leaf_iterator_of(heap, end_at(p))>>, NULL)
  /\ UNCHANGED <<heap, live, selection, multiple_selection>>

WalkNext ==
  \/ BreadthFirstWalk(1)
  \/ PostOrderWalk(1)
  \/ LeafWalk(1)
  \/ LeafWalkBelow(1)
  \/ BeginFixed(1)
  \/ IsInSubtree(1)
  \/ FromSiblingEnd(1)

WalkSpec == DepthInit /\ [][WalkNext]_vars

\* ================================================================ claims
\* the calls named by C1
MutatingOps ==
  {"insert", "insert_after", "append_child", "prepend_child", "erase", "erase_children",
   "replace", "flatten", "reparent", "wrap", "move_before", "move_before_end",
   "move_after", "move_ontop", "move_in", "move_in_as_nth_child", "move_out", "sort",
   "swap", "swap_sibling", "clear", "move_assign"}

\* C1: after every public mutating operation called with valid arguments the link
\* structure is well formed: sibling links are mutual, an edge child is its parent's
\* first_child / last_child, the nodes of a child chain have the chain's owner as
\* parent and roots have none, and the roots form one chain from head to feet.
C1_LinksWellFormedAfterMutation ==
  last.op \in MutatingOps => LinksOK(heap, live)

\* the calls named by C2
CountedOps ==
  {"insert", "insert_after", "append_child", "prepend_child", "insert_subtree", "erase",
   "erase_children", "clear", "move_before", "move_before_end", "move_after",
   "reparent", "move_in", "move_out", "move_assign"}

\* C2: in every state reached by insertions, deletions and moves, the number of
\* pre-order increments from begin() to end() equals size().
C2_StepsEqualSize ==
  last.op \in CountedOps \cup {"tree"} =>
     \A t \in Trees : Len(PreOrder(heap, t)) = Size(heap, t)

RECURSIVE SumCounts(_, _)
\* the sum of the cached counts of the nodes of s
SumCounts(h, s) ==
  IF s = <<>> THEN 0 ELSE SizeAt(h, s[1]) + SumCounts(h, Tail(s))

\* C3: the cached count of every node n, which size(n) and count(n) return, is 1 plus
\* the sum of the cached counts of n's children, that is the number of nodes of the
\* subtree rooted at n with n included; the total of a tree is the count of its head.
C3_CountIncludesNode ==
  /\ \A n \in live :
        /\ SizeAt(heap, n) = 1 + SumCounts(heap, Children(heap, n))
        /\ SizeAt(heap, n) = Cardinality(Below(heap, n, Fuel))
  /\ \A t \in Trees : Size(heap, t) = Cardinality(Reach(heap, t))

\* C4: in a tree whose cached counts are consistent, erase(n) lowers the cached count
\* of every ancestor of n and the total on head by exactly the number of nodes it
\* removes, n and its descendants.
C4_EraseLowersCountsExactly ==
  Consistent =>
     \A t \in Trees : \A n \in Reach(heap, t) : \A m \in {erase(M, t, n)} :
        LET removed == Cardinality(live \ m.live)
        IN /\ removed = Cardinality(Below(heap, n, Fuel))
           /\ \A a \in Ancestors(heap, n, Fuel) :
                 SizeAt(m.h, a) = SizeAt(heap, a) - removed
           /\ Size(m.h, t) = Size(heap, t) - removed

\* C4 witness: a node with a parent and a child is erased, and the parent's count and
\* the total go down by the two nodes removed
C4_Witness ==
  /\ Consistent
  /\ \E n \in Reach(heap, 1) : \E m \in {erase(M, 1, n)} :
        /\ heap[n].parent # NULL /\ heap[n].first_child # NULL
        /\ Cardinality(live \ m.live) = 2
        /\ SizeAt(m.h, heap[n].parent) = SizeAt(heap, heap[n].parent) - 2
        /\ Size(heap, 1) = 3 /\ Size(m.h, 1) = 1

\* where node n stands in the sequence s
Pos(s, n) == CHOOSE i \in 1 .. Len(s) : s[i] = n

\* the nodes of s stand in po in the order of s
InOrder(po, s) ==
  \A i \in 1 .. Len(s) : \A j \in 1 .. Len(s) : i < j => Pos(po, s[i]) < Pos(po, s[j])

\* C5: begin() incremented until end() visits every non-sentinel node exactly once,
\* a node before all of its descendants, siblings from first to last, roots in chain
\* order, and ends at the feet sentinel.
C5_PreOrderVisitsAllOnce ==
  last.op = "pre_order" =>
     LET po == last.path
     IN /\ Range(po) = live
        /\ Len(po) = Cardinality(live)
        /\ \A n \in live : \A d \in Desc(heap, n) : Pos(po, n) < Pos(po, d)
        /\ \A n \in live : InOrder(po, Children(heap, n))
        /\ InOrder(po, Roots(heap, last.t))
        /\ last.ret = feet(last.t)

\* C5 witness: a walk over three nodes that climbs from a last child to the next
\* sibling of its parent
C5_Witness ==
  /\ last.op = "pre_order" /\ Len(last.path) = 3 /\ last.ret = feet(last.t)
  /\ \E n \in live : heap[n].first_child # NULL /\ heap[n].next_sibling \in live

RECURSIVE Flat(_, _, _)
\* the nodes of the chain s and of everything below it, a node before its children
Flat(h, s, fuel) ==
  IF s = <<>> \/ fuel = 0 THEN <<>>
  ELSE <<s[1]>> \o Flat(h, Children(h, s[1]), fuel - 1) \o Flat(h, Tail(s), fuel - 1)

\* the node that follows the subtree of n in the pre-order of tree t, feet if none
Following(h, t, n) ==
  LET po == Flat(h, Roots(h, t), Fuel)
      after == SelectSeq(SubSeq(po, Pos(po, n) + 1, Len(po)),
                         LAMBDA x : x \notin Below(h, n, Fuel))
  IN IF after = <<>> THEN feet(t) ELSE after[1]

\* the sequence s without the nodes of S
Without(s, S) == SelectSeq(s, LAMBDA x : x \notin S)

\* C6: erase(n) removes exactly n and its descendants, leaves every other node with
\* its value, its children and its place (the neighbours of n become adjacent and the
\* parent's first_child / last_child is repaired), and returns the node that followed
\* n's subtree in pre-order.
C6_EraseRemovesSubtreeOnly ==
  Consistent =>
     \A t \in Trees : \A n \in Reach(heap, t) : \A m \in {erase(M, t, n)} :
        LET gone == Below(heap, n, Fuel)
        IN /\ m.live = live \ gone
           /\ \A x \in m.live :
                 /\ m.h[x].data = heap[x].data
                 /\ m.h[x].parent = heap[x].parent
                 /\ Children(m.h, x) = Without(Children(heap, x), gone)
           /\ \A u \in Trees : Roots(m.h, u) = Without(Roots(heap, u), gone)
           /\ WellFormed(m.h, m.live)
           /\ m.ret = Following(heap, t, n)

\* C6 witness: a first child that has a next sibling is erased; the next sibling
\* becomes the parent's first child and is the node returned
C6_Witness ==
  /\ Consistent
  /\ \E n \in Reach(heap, 1) : \E m \in {erase(M, 1, n)} :
        /\ heap[n].parent # NULL /\ heap[n].prev_sibling = NULL
        /\ heap[n].next_sibling # NULL
        /\ m.h[heap[n].parent].first_child = heap[n].next_sibling
        /\ m.h[heap[n].next_sibling].prev_sibling = NULL
        /\ m.ret = heap[n].next_sibling
        /\ n \notin m.live

\* no node stands twice in the sequence s
NoDup(s) == \A i \in 1 .. Len(s) : \A j \in 1 .. Len(s) : i # j => s[i] # s[j]

\* C7: every live node is owned exactly once: it is reachable from exactly one head,
\* stands in exactly one sibling chain (the children of one parent or the roots of
\* one tree), and no chain meets a node twice.
C7_OwnedExactlyOnce ==
  /\ \A n \in live :
        /\ Cardinality({t \in Trees : n \in Reach(heap, t)}) = 1
        /\ Cardinality({p \in live : n \in Range(Children(heap, p))})
             + Cardinality({t \in Trees : n \in Range(Roots(heap, t))}) = 1
        /\ NoDup(Children(heap, n))
  /\ \A t \in Trees : NoDup(ChainFrom(heap, head(t), Fuel))

\* C8: for top = n or an ancestor of n, iterator_from_path(path_from_iterator(n, top),
\* top) is n.
C8_PathRoundTrip ==
  last.op = "path_from_iterator" =>
     iterator_from_path(heap, last.path, last.b) = last.a

\* C8 witness: the path of a second child taken from its grandparent, or of a second
\* child from its parent: more than one level and a sibling step
C8_Witness ==
  /\ last.op = "path_from_iterator" /\ last.a # last.b
  /\ Len(last.path) >= 2 /\ last.path[Len(last.path)] = 1
  /\ iterator_from_path(heap, last.path, last.b) = last.a

\* the siblings to the right of n, in order
RightOf(h, t, n) ==
  LET s == IF h[n].parent = NULL THEN Roots(h, t) ELSE Children(h, h[n].parent)
  IN SubSeq(s, Pos(s, n) + 1, Len(s))

RECURSIVE InRange(_, _, _, _, _)
\* the path from step on stays inside the tree: at every level there are at least as
\* many nodes to the right as the step asks for, and a deeper level has children
InRange(h, t, path, step, n) ==
  /\ path[step] <= Len(RightOf(h, t, n))
  /\ step < Len(path) =>
        LET at == IF path[step] = 0 THEN n ELSE RightOf(h, t, n)[path[step]]
        IN /\ h[at].first_child # NULL
           /\ InRange(h, t, path, step + 1, h[at].first_child)

\* C9: iterator_from_path throws std::range_error whenever the path leaves the tree,
\* and never returns a null iterator or the head / feet sentinel.
C9_OutOfRangeSignalled ==
  last.op = "iterator_from_path" =>
     /\ ~InRange(heap, last.t, last.path, 1, last.b) => last.ret = RANGE_ERROR
     /\ last.ret \notin Sentinels \cup {NULL}

RECURSIVE Term(_, _, _)
\* the subtree at n as a value: the node's data and the subtrees of its children
Term(h, n, fuel) ==
  [data |-> h[n].data,
   kids |-> IF fuel = 0 THEN <<>>
            ELSE [i \in 1 .. Len(Children(h, n)) |-> Term(h, Children(h, n)[i], fuel - 1)]]

\* tree t as a value: the subtrees of its roots, in order
Forest(h, t) == [i \in 1 .. Len(Roots(h, t)) |-> Term(h, Roots(h, t)[i], Fuel)]

\* the nodes of tree t and its two sentinels
Region(h, t) == Reach(h, t) \cup {head(t), feet(t)}

\* C10: copy-construction and copy-assignment from S give a tree with the shape and
\* the values of S in the same order, built from fresh nodes; S is unchanged, and a
\* later mutation of either tree does not change the other.
C10_CopyIsDeepAndSeparate ==
  Consistent =>
     \A t \in Trees : \A m \in {copy_(M, t, Other(t))} :
        LET S == Other(t)
        IN /\ Forest(m.h, t) = Forest(heap, S)
           /\ Reach(m.h, t) \cap Reach(heap, S) = {}
           /\ m.live = Reach(heap, S) \cup Reach(m.h, t)
           /\ \A x \in Region(heap, S) : m.h[x] = heap[x]
           /\ WellFormed(m.h, m.live)
           /\ \A n \in Reach(m.h, t) : \A m2 \in {erase(m, t, n)} :
                 /\ \A x \in Region(heap, S) : m2.h[x] = heap[x]
                 /\ Forest(m2.h, t) # Forest(m.h, t)
           /\ \A n \in Reach(m.h, S) : \A m2 \in {erase(m, S, n)} :
                 /\ \A x \in Region(m.h, t) : m2.h[x] = m.h[x]
                 /\ Forest(m2.h, S) # Forest(m.h, S)

\* C10 witness: a tree has been assigned a copy of a parent with its child; the two
\* trees are equal and share none of their four nodes
C10_Witness ==
  /\ last.op = "copy"
  /\ Forest(heap, last.t) = Forest(heap, Other(last.t))
  /\ \E n \in Reach(heap, last.t) : heap[n].first_child # NULL
  /\ Reach(heap, 1) \cap Reach(heap, 2) = {}
  /\ Cardinality(live) = 4

\* what a move from tree x into tree t must leave, h0 being the heap before it: t
\* holds the former roots of x with what is below them, between its own head and
\* feet, and x is empty
Moved(h0, h, t, x) ==
  LET rs == Roots(h0, x)
      first == IF rs = <<>> THEN feet(t) ELSE rs[1]
      lst == IF rs = <<>> THEN head(t) ELSE rs[Len(rs)]
  IN /\ Roots(h, t) = rs
     /\ Forest(h, t) = Forest(h0, x)
     /\ h[head(t)].next_sibling = first
     /\ h[first].prev_sibling = head(t)
     /\ h[feet(t)].prev_sibling = lst
     /\ h[lst].next_sibling = feet(t)
     /\ h[head(x)].next_sibling = feet(x)
     /\ h[feet(x)].prev_sibling = head(x)

\* C11: move-construction and move-assignment from a tree x leave the destination
\* with x's former root chain in the same order between the destination's own head
\* and feet, and leave x empty; also when x is empty before the move.
C11_MoveTakesRootsAndEmptiesSource ==
  Consistent =>
     \A t \in Trees :
        /\ \A m \in {move_assign(M, t, Other(t))} : Moved(heap, m.h, t, Other(t))
        /\ Reach(heap, t) = {} =>
              \A m \in {move_construct(M, t, Other(t))} : Moved(heap, m.h, t, Other(t))

\* C12: move_out(n), n's subtree having k nodes, returns a tree whose begin() is n,
\* with n's subtree intact and size() = k; the size() of the original tree goes down
\* by k, n's former neighbours are linked to each other and the former parent's
\* first_child / last_child no longer refer to n.
C12_MoveOutDetachesSubtree ==
  Consistent =>
     \A t \in Trees : \A n \in Reach(heap, t) :
        Reach(heap, Other(t)) = {} =>
           \A m \in {move_out(M, Other(t), n)} :
              LET ret == Other(t)
                  k == Cardinality(Below(heap, n, Fuel))
                  p == heap[n].prev_sibling
                  s == heap[n].next_sibling
                  par == heap[n].parent
              IN /\ Begin(m.h, ret) = n
                 /\ Forest(m.h, ret) = <<Term(heap, n, Fuel)>>
                 /\ Size(m.h, ret) = k
                 /\ Size(m.h, t) = Size(heap, t) - k
                 /\ p # NULL => m.h[p].next_sibling = s
                 /\ s # NULL => m.h[s].prev_sibling = p
                 /\ par # NULL => /\ m.h[par].first_child # n
                                  /\ m.h[par].last_child # n

\* the sequence s with ins put in after its first i elements
Spliced(s, i, ins) == SubSeq(s, 1, i) \o ins \o SubSeq(s, i + 1, Len(s))

\* the sibling chain that node n stands in: the roots of tree t or its parent's children
Siblings(h, t, n) ==
  IF h[n].parent = NULL THEN Roots(h, t) ELSE Children(h, h[n].parent)

\* the roots of tree x have moved with their subtrees under the parent par, the
\* links are well formed and x has no roots left
Adopted(h0, m, x, par) ==
  /\ \A r \in Range(Roots(h0, x)) :
        /\ m.h[r].parent = par
        /\ Term(m.h, r, Fuel) = Term(h0, r, Fuel)
  /\ ~Faulted(m.h)
  /\ LinksOK(m.h, m.live)
  /\ m.h[head(x)].next_sibling = feet(x)
  /\ m.h[feet(x)].prev_sibling = head(x)

\* C13: move_in(loc, other) with a non-empty other puts the roots of other, in order
\* and with their subtrees, immediately before loc as its siblings with loc's parent
\* as parent, keeps the links consistent for any valid loc and leaves other without
\* roots; move_in_as_nth_child(loc, n, other) with n at most the number of children
\* of loc makes them the children of loc from index n on.
C13_MoveInSplicesRoots ==
  Consistent =>
     \A t \in Trees : \A loc \in Reach(heap, t) :
        Reach(heap, Other(t)) # {} =>
           LET x == Other(t)
               moved == Roots(heap, x)
               sibs == Siblings(heap, t, loc)
               kids == Children(heap, loc)
           IN /\ \A m \in {move_in(M, loc, x)} :
                    /\ Adopted(heap, m, x, heap[loc].parent)
                    /\ Siblings(m.h, t, loc) = Spliced(sibs, Pos(sibs, loc) - 1, moved)
              /\ \A n \in 0 .. Len(kids) :
                    \A m \in {move_in_as_nth_child(M, loc, n, x)} :
                       /\ Adopted(heap, m, x, loc)
                       /\ Children(m.h, loc) = Spliced(kids, n, moved)

\* C14: move_in_as_nth_child(loc, n, other) throws std::range_error whenever n
\* exceeds the number of children of loc, and then neither tree is modified.
C14_NthChildOutOfRangeSignalled ==
  Consistent =>
     \A t \in Trees : \A loc \in Reach(heap, t) : \A n \in 0 .. MaxNodes + 1 :
        n > Len(Children(heap, loc)) =>
           \A m \in {move_in_as_nth_child(M, loc, n, Other(t))} :
              /\ m.ret = RANGE_ERROR
              /\ m.h = heap
              /\ m.live = live

\* the ranges [from, to) that sort can be called with in tree t: from a node, to one
\* of its later siblings or the end of its chain (feet for roots, null for children)
SortRanges(h, t) ==
  {r \in [from : Reach(h, t), to : Ids \cup {NULL}] :
      \/ r.to \in Range(RightOf(h, t, r.from))
      \/ r.to = (IF h[r.from].parent = NULL THEN feet(t) ELSE NULL)}

\* C15: sort(from, to, comp) is stable: two nodes of the range whose values compare
\* equivalent stand after the sort in the same relative order as before.
C15_SortIsStable ==
  Consistent =>
     \A t \in Trees : \A r \in SortRanges(heap, t) : \A deep \in BOOLEAN :
        \A h \in {sort(heap, r.from, r.to, deep)} :
           LET before == ChainUntil(heap, r.from, r.to, Fuel)
               after == Siblings(h, t, r.from)
           IN /\ Range(before) \subseteq Range(after)
              /\ \A a \in Range(before) : \A b \in Range(before) :
                    (heap[a].data = heap[b].data /\ Pos(before, a) < Pos(before, b))
                       => Pos(after, a) < Pos(after, b)

\* C15 witness: three roots with the values 2, 2, 1 are sorted; the third comes
\* first and the two equivalent nodes keep their order
C15_Witness ==
  /\ Consistent
  /\ \E h \in {sort(heap, Begin(heap, 1), End(1), FALSE)} :
        LET rs == Roots(heap, 1)
        IN /\ Len(rs) = 3
           /\ heap[rs[1]].data = 2 /\ heap[rs[2]].data = 2 /\ heap[rs[3]].data = 1
           /\ Roots(h, 1) = <<rs[3], rs[1], rs[2]>>

\* no node of s stands before a node that compares less than it
Sorted(h, s) ==
  \A i \in 1 .. Len(s) : \A j \in 1 .. Len(s) : i < j => ~(h[s[j]].data < h[s[i]].data)

\* C16: sort(from, to, comp, deep = false) changes only the sibling order inside
\* [from, to): the range holds the same nodes, in an order where no node precedes a
\* node that compares less; every node keeps its children in their order; the nodes
\* outside the range keep their place; and the former neighbours of the range, or
\* the parent's first_child / last_child, are linked to its new first and last node.
C16_SortPermutesRangeOnly ==
  Consistent =>
     \A t \in Trees : \A r \in SortRanges(heap, t) :
        \A h \in {sort(heap, r.from, r.to, FALSE)} :
           LET before == ChainUntil(heap, r.from, r.to, Fuel)
               sibs == Siblings(heap, t, r.from)
               lo == Pos(sibs, r.from)
               hi == lo + Len(before) - 1
               after == Siblings(h, t, r.from)
               par == heap[r.from].parent
           IN /\ Len(after) = Len(sibs)
              /\ SubSeq(after, 1, lo - 1) = SubSeq(sibs, 1, lo - 1)
              /\ SubSeq(after, hi + 1, Len(after)) = SubSeq(sibs, hi + 1, Len(sibs))
              /\ Range(SubSeq(after, lo, hi)) = Range(before)
              /\ Sorted(h, SubSeq(after, lo, hi))
              /\ \A n \in live :
                    /\ h[n].data = heap[n].data
                    /\ h[n].parent = heap[n].parent
                    /\ h[n].count = heap[n].count
                    /\ n # par => Children(h, n) = Children(heap, n)
                    /\ n \notin Range(sibs) \cup {par} => h[n] = heap[n]
              /\ \A u \in Trees : u # t \/ par # NULL => Roots(h, u) = Roots(heap, u)
              /\ WellFormed(h, live)

\* C16 witness: two roots, the first with the greater value and a child; sorted, it
\* stands behind the second and still has its child
C16_Witness ==
  /\ Consistent
  /\ \E h \in {sort(heap, Begin(heap, 1), End(1), FALSE)} :
        LET rs == Roots(heap, 1)
        IN /\ Len(rs) = 2
           /\ heap[rs[1]].data > heap[rs[2]].data
           /\ heap[rs[1]].first_child # NULL
           /\ Roots(h, 1) = <<rs[2], rs[1]>>
           /\ h[head(1)].next_sibling = rs[2] /\ h[feet(1)].prev_sibling = rs[1]
           /\ Children(h, rs[1]) = Children(heap, rs[1])

\* a for b and b for a
Exchanged(x, a, b) == IF x = a THEN b ELSE IF x = b THEN a ELSE x

\* the sequence s with a and b exchanged
ExchangedIn(s, a, b) == [i \in 1 .. Len(s) |-> Exchanged(s[i], a, b)]

\* C17: swap(a, b) for two distinct nodes, neither an ancestor of the other,
\* exchanges their positions: a gets b's former parent and neighbours and b gets
\* a's, each keeps its own subtree, every other node is unchanged, the links are well
\* formed and a and b are still the same nodes; for adjacent siblings in either
\* order and for nodes that are not adjacent.
C17_SwapExchangesPositions ==
  Consistent =>
     \A t \in Trees : \A a \in Reach(heap, t) : \A b \in Reach(heap, t) :
        Apart(heap, a, b) =>
           \A h \in {swap(heap, a, b)} :
              /\ h[a].parent = heap[b].parent
              /\ h[b].parent = heap[a].parent
              /\ h[a].prev_sibling = Exchanged(heap[b].prev_sibling, a, b)
              /\ h[a].next_sibling = Exchanged(heap[b].next_sibling, a, b)
              /\ h[b].prev_sibling = Exchanged(heap[a].prev_sibling, a, b)
              /\ h[b].next_sibling = Exchanged(heap[a].next_sibling, a, b)
              /\ \A u \in Trees : Roots(h, u) = ExchangedIn(Roots(heap, u), a, b)
              /\ \A n \in live :
                    /\ Children(h, n) = ExchangedIn(Children(heap, n), a, b)
                    /\ h[n].data = heap[n].data
                    /\ n \notin {a, b} => h[n].parent = heap[n].parent
                    /\ n \notin {a, b, heap[a].parent, heap[b].parent,
                                 heap[a].prev_sibling, heap[a].next_sibling,
                                 heap[b].prev_sibling, heap[b].next_sibling}
                          => h[n] = heap[n]
              /\ WellFormed(h, live)

\* C17 witness: an only child is swapped with a root that is not its parent: the
\* child becomes a root and the root the only child
C17_Witness ==
  /\ Consistent
  /\ \E a \in Reach(heap, 1) : \E b \in Reach(heap, 1) : \E h \in {swap(heap, a, b)} :
        /\ Apart(heap, a, b)
        /\ heap[a].parent # NULL /\ heap[b].parent = NULL
        /\ h[a].parent = NULL /\ h[b].parent = heap[a].parent
        /\ Children(h, heap[a].parent) = <<b>>
        /\ a \in Range(Roots(h, 1))

RECURSIVE Matches(_, _, _, _, _)
\* the subtrees at a and b have the same shape and fun holds for the data of every
\* pair of corresponding nodes, a's node first
Matches(h, a, b, fun, fuel) ==
  /\ Fun(fun, h[a].data, h[b].data)
  /\ Len(Children(h, a)) = Len(Children(h, b))
  /\ fuel > 0 =>
       \A i \in 1 .. Len(Children(h, a)) :
          Matches(h, Children(h, a)[i], Children(h, b)[i], fun, fuel - 1)

\* C18: equal_subtree(a, b, fun) answers true exactly when the subtrees at a and b
\* have the same shape and fun holds at every pair of corresponding nodes; with a
\* reflexive predicate equal_subtree(a, a, fun) is true.
C18_EqualSubtreeExact ==
  last.op = "equal_subtree" =>
    /\ last.ret.equal = Matches(heap, last.a, last.b, last.ret.fun, Fuel)
    /\ (last.a = last.b /\ last.ret.fun \in {"equal_to", "less_equal"})
         => last.ret.equal

\* two different nodes that both have children were compared and found equal
C18_Witness ==
  /\ last.op = "equal_subtree"
  /\ last.a # last.b
  /\ heap[last.a].first_child # NULL
  /\ last.ret.fun = "less_equal"
  /\ heap[last.a].data # heap[last.b].data
  /\ last.ret.equal

\* depth of n: the number of its ancestors
Depth(h, n) == Cardinality(Ancestors(h, n, Fuel))

\* the greatest element of a non-empty finite set of integers
Greatest(S) == CHOOSE x \in S : \A y \in S : y <= x

\* C19: max_depth() returns -1 only for an empty tree; for a non-empty tree it
\* returns the greatest depth of a node, the roots being at depth 0.
C19_MaxDepthOfTree ==
  last.op = "max_depth" =>
    /\ (last.ret = -1) <=> (Reach(heap, last.t) = {})
    /\ Reach(heap, last.t) # {}
         => last.ret = Greatest({Depth(heap, n) : n \in Reach(heap, last.t)})

\* C20: max_depth(n) is the length of the longest downward path from n to one of
\* its descendants (0 for a leaf), wherever n stands among its siblings and whatever
\* the tree looks like outside the subtree of n.
C20_MaxDepthOfNode ==
  last.op = "max_depth_at" =>
    last.ret = Greatest({Depth(heap, d) - Depth(heap, last.a) :
                           d \in Below(heap, last.a, Fuel)})

\* C23 as stated: after replace(position, from) the node that position referred to
\* is still live, holds the value of from, sits at the same place and is the root of
\* the copied subtree, so an iterator to position is still valid.
C23_ReplaceReusesNode ==
  Consistent =>
     \A t \in Trees : \A pos \in Reach(heap, t) : \A from \in AllNodes :
        Apart(heap, pos, from) =>
           \A m \in {replace(M, t, pos, from)} :
              /\ pos \in m.live
              /\ m.ret = pos
              /\ m.h[pos].data = heap[from].data
              /\ m.h[pos].parent = heap[pos].parent
              /\ m.h[pos].prev_sibling = heap[pos].prev_sibling
              /\ m.h[pos].next_sibling = heap[pos].next_sibling
              /\ Term(m.h, pos, Fuel) = Term(heap, from, Fuel)

\* C23 (amended): replace(position, from) destroys the node at position and puts a
\* newly allocated node at its place: the node returned is another node than the one
\* position referred to, it holds the value of from, has the parent and the sibling
\* neighbours position had and is the root of a copy of the subtree at from; the
\* node of position is no longer live unless its storage was handed out again for
\* a copied descendant; the subtree at from is unchanged.
C23_ReplacePutsNewNode ==
  Consistent =>
     \A t \in Trees : \A pos \in Reach(heap, t) : \A from \in AllNodes :
        Apart(heap, pos, from) =>
           \A m \in {replace(M, t, pos, from)} :
              /\ m.ret # pos
              /\ m.ret \in m.live
              /\ pos \in m.live => pos \in Desc(m.h, m.ret)
              /\ m.h[m.ret].data = heap[from].data
              /\ m.h[m.ret].parent = heap[pos].parent
              /\ m.h[m.ret].prev_sibling = heap[pos].prev_sibling
              /\ m.h[m.ret].next_sibling = heap[pos].next_sibling
              /\ Term(m.h, m.ret, Fuel) = Term(heap, from, Fuel)
              /\ Term(m.h, from, Fuel) = Term(heap, from, Fuel)

\* C23 witness: a leaf is replaced by a copy of a subtree of two nodes that has
\* another value at its root
C23_Witness ==
  /\ Consistent
  /\ \E pos \in Reach(heap, 1) : \E from \in {n \in AllNodes : Apart(heap, pos, n)} :
        /\ heap[from].first_child # NULL
        /\ heap[from].data # heap[pos].data
        /\ \E m \in {replace(M, 1, pos, from)} :
              /\ m.ret # pos
              /\ m.h[m.ret].first_child # NULL
              /\ m.h[m.ret].data = heap[from].data

\* C28: move_ontop(target, source), for distinct nodes neither inside the subtree of
\* the other, erases target with its subtree and leaves source, with its subtree, at
\* the place target had (its parent and its sibling neighbours); the place source
\* had is closed and the links are well formed afterwards, also when source is the
\* sibling right before or right after target.
C28_MoveOntopTakesPlace ==
  Consistent =>
     \A t \in Trees : \A target \in Reach(heap, t) : \A source \in Reach(heap, t) :
        Apart(heap, target, source) =>
           \A m \in {move_ontop(M, t, target, source)} :
              /\ m.live = live \ Subtree(heap, live, target)
              /\ m.h[source].parent = heap[target].parent
              /\ m.h[source].prev_sibling = heap[target].prev_sibling
              /\ m.h[source].next_sibling = heap[target].next_sibling
              /\ Term(m.h, source, Fuel) = Term(heap, source, Fuel)
              /\ WellFormed(m.h, m.live)

\* source, with its subtree, stands right before nxt (right after prv) under parent
\* par in h, its old place in h0 is closed and no other node has moved
MovedTo(h0, h, source, prv, nxt, par) ==
  /\ h[source].parent = par
  /\ h[source].prev_sibling = prv
  /\ h[source].next_sibling = nxt
  /\ Term(h, source, Fuel) = Term(h0, source, Fuel)
  /\ \A t \in Trees : Without(PreOrder(h, t), Below(h0, source, Fuel))
                        = Without(PreOrder(h0, t), Below(h0, source, Fuel))
  /\ WellFormed(h, live)

\* C29: move_before(target, source) and move_after(target, source) leave source,
\* with its subtree, as the sibling right before (right after) target under target's
\* parent, close the gap at source's old place and change nothing when source is
\* already there; move_before(end of the children of p, source) makes source the
\* last child of p, with p.last_child and the parent of source set.
C29_MoveBeforeAfterPlaceSource ==
  Consistent =>
     \A t \in Trees : \A source \in Reach(heap, t) :
        /\ \A target \in Reach(heap, t) \ Below(heap, source, Fuel) :
              /\ \A m \in {move_before(M, target, source)} :
                    /\ MovedTo(heap, m.h, source,
                               IF heap[target].prev_sibling = source
                               THEN heap[source].prev_sibling
                               ELSE heap[target].prev_sibling,
                               target, heap[target].parent)
                    /\ heap[target].prev_sibling = source => m.h = heap
              /\ \A m \in {move_after(M, target, source)} :
                    /\ MovedTo(heap, m.h, source, target,
                               IF heap[target].next_sibling = source
                               THEN heap[source].next_sibling
                               ELSE heap[target].next_sibling,
                               heap[target].parent)
                    /\ heap[target].next_sibling = source => m.h = heap
              /\ \A m \in {move_before_sibling(M, heap[target].parent, target, source)} :
                    MovedTo(heap, m.h, source,
                            IF heap[target].prev_sibling = source
                            THEN heap[source].prev_sibling
                            ELSE heap[target].prev_sibling,
                            target, heap[target].parent)
        /\ \A p \in Reach(heap, t) \ Below(heap, source, Fuel) :
              heap[p].first_child # NULL =>
                 \A m \in {move_before_sibling(M, p, NULL, source)} :
                    /\ m.h[p].last_child = source
                    /\ MovedTo(heap, m.h, source,
                               IF heap[p].last_child = source
                               THEN heap[source].prev_sibling ELSE heap[p].last_child,
                               NULL, p)

\* C30: swap(it) exchanges the node at it with its next sibling, subtrees included,
\* and does nothing when that node has no next sibling node; applied to the last
\* root it leaves the tree and the feet sentinel unchanged.
C30_SwapWithNextSibling ==
  Consistent =>
     \A t \in Trees : \A it \in Reach(heap, t) :
        \A h \in {swap_sibling(heap, it)} :
           IF heap[it].next_sibling \in live
           THEN /\ \A u \in Trees :
                      Roots(h, u) = ExchangedIn(Roots(heap, u), it, heap[it].next_sibling)
                /\ \A n \in live :
                      /\ Children(h, n)
                           = ExchangedIn(Children(heap, n), it, heap[it].next_sibling)
                      /\ h[n].data = heap[n].data
                      /\ h[n].parent = heap[n].parent
                /\ WellFormed(h, live)
           ELSE h = heap

\* the node that follows n in pre-order among the nodes of S at the depth of n, or
\* null when there is none
NextAtDepth(h, t, n, S) ==
  LET po == SelectSeq(PreOrder(h, t), LAMBDA x : x \in S /\ Depth(h, x) = Depth(h, n))
  IN IF Pos(po, n) < Len(po) THEN po[Pos(po, n) + 1] ELSE NULL

\* C21: incrementing a fixed-depth iterator, also through next_at_same_depth, moves
\* to the next node in left-to-right order at the depth of the current node, under
\* another parent when the sibling chain is exhausted, and never comes to rest on a
\* node of another depth.
C21_FixedDepthStaysAtDepth ==
  /\ last.op = "next_at_same_depth" =>
       /\ last.ret \in live => Depth(heap, last.ret) = Depth(heap, last.a)
       /\ NextAtDepth(heap, last.t, last.a, live) # NULL
            => last.ret = NextAtDepth(heap, last.t, last.a, live)
  /\ last.op = "fixed_depth_increment" =>
       /\ last.ret \in live => Depth(heap, last.ret) = Depth(heap, last.a)
       /\ NextAtDepth(heap, last.t, last.a, Desc(heap, last.b)) # NULL
            => last.ret = NextAtDepth(heap, last.t, last.a, Desc(heap, last.b))

\* the subtrees of the nodes of s as values, in order
Terms(h, s) == [i \in 1 .. Len(s) |-> Term(h, s[i], Fuel)]

\* C22 as stated: subtree(from, to) on a non-empty sibling range returns a tree with
\* a single root, the dummy root, whose children are deep copies of the nodes of
\* [from, to) with their subtrees, in order; the original tree is unchanged.
C22_SubtreeUnderDummyRoot ==
  Consistent =>
     \A t \in Trees : Reach(heap, Other(t)) = {} =>
        \A r \in SortRanges(heap, t) : (r.to # r.from /\ RoomFor(heap, r.from, r.to)) =>
           \A m \in {subtree(M, Other(t), r.from, r.to)} :
              /\ Forest(m.h, Other(t))
                   = <<[data |-> DefaultValue,
                        kids |-> Terms(heap, RangeOf(heap, r.from, r.to))]>>
              /\ \A x \in Region(heap, t) : m.h[x] = heap[x]

\* C22 (amended): subtree(from, to) on a non-empty sibling range returns a tree whose
\* roots are deep copies of the nodes of [from, to) with their subtrees, in order;
\* the dummy root that set_head put in is erased again; the new tree shares no node
\* with the original, its links are well formed and the original tree is unchanged.
C22_SubtreeRootsAreCopies ==
  Consistent =>
     \A t \in Trees : Reach(heap, Other(t)) = {} =>
        \A r \in SortRanges(heap, t) : (r.to # r.from /\ RoomFor(heap, r.from, r.to)) =>
           \A m \in {subtree(M, Other(t), r.from, r.to)} :
              /\ Forest(m.h, Other(t)) = Terms(heap, RangeOf(heap, r.from, r.to))
              /\ Reach(m.h, Other(t)) \cap live = {}
              /\ m.live = live \cup Reach(m.h, Other(t))
              /\ \A x \in Region(heap, t) : m.h[x] = heap[x]
              /\ WellFormed(m.h, m.live)

\* C22 witness: the range of the two children of a root has been extracted
C22_Witness ==
  /\ Consistent
  /\ Reach(heap, 2) = {}
  /\ \E p \in Reach(heap, 1) :
        /\ Len(Children(heap, p)) = 2
        /\ \E m \in {subtree(M, 2, heap[p].first_child, NULL)} :
              /\ Len(Roots(m.h, 2)) = 2
              /\ Forest(m.h, 2) = Terms(heap, Children(heap, p))

RECURSIVE MergedTerms(_, _, _)
RECURSIVE MergedTerm(_, _)
\* what merging the subtree value s into the sibling values D is to give: nothing
\* new when a sibling of D has the value of s, the children of s being merged into
\* that sibling, and a copy of s after the others otherwise
MergedTerm(D, s) ==
  IF \E j \in 1 .. Len(D) : D[j].data = s.data
  THEN LET j == CHOOSE j \in 1 .. Len(D) :
                  D[j].data = s.data /\ \A k \in 1 .. j - 1 : D[k].data # s.data
       IN [D EXCEPT ![j].kids = MergedTerms(D[j].kids, s.kids, 1)]
  ELSE Append(D, s)

\* the source siblings S[i], S[i+1], ... merged into D one after the other
MergedTerms(D, S, i) ==
  IF i > Len(S) THEN D ELSE MergedTerms(MergedTerm(D, S[i]), S, i + 1)

\* C24: merge(to1, to2, from1, from2, duplicate_leaves = false) adds only what is
\* missing: a source sibling whose value occurs among the destination siblings,
\* those added earlier in the call included, makes no new sibling and has its children
\* merged into the matching destination node; a source subtree is copied only when no
\* destination sibling has its value; for a destination range that is empty at first
\* as for any other, and the source is unchanged.
C24_MergeAddsOnlyMissing ==
  Consistent =>
     \A to \in Reach(heap, 1) : \A from \in Reach(heap, 1) :
        Apart(heap, to, from) =>
           /\ (heap[from].first_child # NULL /\ CanMerge(Desc(heap, from))) =>
                 \A m \in {merge(M, 1, begin_at(heap, to), end_at(to),
                                 begin_at(heap, from).node, end_at(from), FALSE)} :
                    /\ Terms(m.h, Children(m.h, to))
                         = MergedTerms(Terms(heap, Children(heap, to)),
                                       Terms(heap, Children(heap, from)), 1)
                    /\ Term(m.h, from, Fuel) = Term(heap, from, Fuel)
           /\ CanMerge(Below(heap, from, Fuel)) =>
                 \A m \in {merge_top(M, 1, to, from, FALSE)} :
                    /\ Terms(m.h, RangeOf(m.h, to, heap[to].next_sibling))
                         = MergedTerms(<<Term(heap, to, Fuel)>>,
                                       <<Term(heap, from, Fuel)>>, 1)
                    /\ Term(m.h, from, Fuel) = Term(heap, from, Fuel)

RECURSIVE ExpandedSum(_, _)
\* what the nodes of s and their expanded descendants add to an expanded count
ExpandedSum(h, s) ==
  IF s = <<>> THEN 0 ELSE 1 + h[s[1]].count_expanded + ExpandedSum(h, Tail(s))

\* consistent expanded counts: an expanded node counts its children and what they
\* count, a collapsed node counts nothing, the tree counts like an expanded node
ExpandedOK(h, t) ==
  /\ h[head(t)].count_expanded = ExpandedSum(h, Roots(h, t))
  /\ \A n \in Reach(h, t) :
       h[n].count_expanded = IF h[n].expanded THEN ExpandedSum(h, Children(h, n)) ELSE 0

\* the ancestors of n from its parent up to x are all expanded
ExpandedUpTo(h, n, x) ==
  \A a \in Ancestors(h, n, Fuel) : (a = x \/ x \in Ancestors(h, a, Fuel)) => h[a].expanded

\* C25: for an expanded node n of a tree with consistent expanded counts, collapse(n)
\* followed by expand(n) gives the tree, n and every ancestor of n the expanded count
\* they had before; after the collapse alone the only nodes besides n whose expanded
\* count differs are ancestors of n reached through an unbroken chain of expanded
\* ancestors
C25_CollapseThenExpandRestores ==
  ExpandedOK(heap, 1) =>
    \A n \in {x \in Reach(heap, 1) : heap[x].expanded} :
       \A m1 \in {collapse(M, 1, n)} :
          /\ \A x \in Reach(heap, 1) \ {n} :
                m1.h[x].count_expanded # heap[x].count_expanded =>
                   x \in Ancestors(heap, n, Fuel) /\ ExpandedUpTo(heap, n, x)
          /\ \A m2 \in {expand(m1, 1, n)} :
                \A x \in {head(1), n} \cup Ancestors(heap, n, Fuel) :
                   m2.h[x].count_expanded = heap[x].count_expanded

\* an expanded node with a child under an expanded parent is collapsed, which lowers
\* the counts of its parent and of the tree, and expanded again
C25_Witness ==
  /\ ExpandedOK(heap, 1)
  /\ \E n \in {x \in Reach(heap, 1) : heap[x].expanded /\ heap[x].parent # NULL} :
       /\ heap[n].count_expanded > 0
       /\ heap[heap[n].parent].expanded
       /\ \E m1 \in {collapse(M, 1, n)} :
            /\ m1.h[heap[n].parent].count_expanded < heap[heap[n].parent].count_expanded
            /\ m1.h[head(1)].count_expanded < heap[head(1)].count_expanded
            /\ \E m2 \in {expand(m1, 1, n)} :
                 m2.h[head(1)].count_expanded = heap[head(1)].count_expanded

\* C26: after filter(pred) a node is visible exactly when pred holds for its value
\* or for the value of one of its descendants
C26_FilterMakesVisible ==
  ExpandedBounded(heap, 1) =>
    \A comp \in SUBSET Values :
       \A m \in {filter(M, 1, comp)} :
          \A n \in Reach(heap, 1) :
             m.h[n].visible <=>
                \/ heap[n].data \in comp
                \/ \E d \in Desc(heap, n) : heap[d].data \in comp

\* a filter leaves one node visible only because of a descendant and hides another
C26_Witness ==
  /\ ExpandedBounded(heap, 1)
  /\ \E comp \in SUBSET Values :
       \E m \in {filter(M, 1, comp)} :
          /\ \E n \in Reach(heap, 1) : m.h[n].visible /\ heap[n].data \notin comp
          /\ \E n \in Reach(heap, 1) : ~m.h[n].visible /\ heap[n].visible

\* C27: after any sequence of set_multiple_selection, select, unselect and toggle
\* calls every stored range has begin <= end and consecutive ranges r, s are apart:
\* r.end + 1 < s.begin
C27_SelectionRangesApart == RangesApart(selection)

\* C31: flatten(n) puts the former children of n right after n in their sibling
\* chain, in their order and ahead of n's former next sibling, gives them n's parent
\* and leaves n without children; the pre-order sequence of the tree stays the same
C31_FlattenPromotesChildren ==
  Consistent =>
    \A t \in Trees : \A n \in Reach(heap, t) :
       \A m \in {flatten(M, n)} :
          /\ m.h[n].first_child = NULL /\ m.h[n].last_child = NULL
          /\ \A c \in Range(Children(heap, n)) : m.h[c].parent = heap[n].parent
          /\ Siblings(m.h, t, n) =
               Spliced(Siblings(heap, t, n), Pos(Siblings(heap, t, n), n),
                       Children(heap, n))
          /\ PreOrder(m.h, t) = PreOrder(heap, t)
          /\ LinksOK(m.h, m.live)
          /\ m.ret = n

\* a node with a child and a next sibling node is flattened
C31_Witness ==
  /\ Consistent
  /\ \E t \in Trees : \E n \in Reach(heap, t) :
       /\ heap[n].first_child # NULL
       /\ heap[n].next_sibling \in Reach(heap, t)
       /\ \E m \in {flatten(M, n)} :
            /\ m.h[heap[n].first_child].prev_sibling = n
            /\ m.h[heap[n].next_sibling].prev_sibling = heap[n].last_child

RECURSIVE ChildrenOfAll(_, _)
\* the children of the nodes of s, in the order of s
ChildrenOfAll(h, s) ==
  IF s = <<>> THEN <<>> ELSE Children(h, s[1]) \o ChildrenOfAll(h, Tail(s))

RECURSIVE LevelOrder(_, _, _)
\* the nodes of the level s and of the levels below it, level by level, each level
\* from left to right
LevelOrder(h, s, fuel) ==
  IF s = <<>> \/ fuel = 0 THEN <<>>
  ELSE s \o LevelOrder(h, ChildrenOfAll(h, s), fuel - 1)

\* C32: iterating from begin_breadth_first() to end_breadth_first() visits every
\* node of the tree once, level by level and left to right within a level, never a
\* sentinel, and nothing for an empty tree
C32_BreadthFirstVisitsAll ==
  BreadthFirstFrom(heap, begin_breadth_first(heap, 1), Fuel)
     = LevelOrder(heap, Roots(heap, 1), Fuel)

RECURSIVE PostFlat(_, _, _)
\* the post-order of the subtrees of the nodes of s: children first to last, then
\* the node
PostFlat(h, s, fuel) ==
  IF s = <<>> \/ fuel = 0 THEN <<>>
  ELSE PostFlat(h, Children(h, s[1]), fuel - 1) \o <<s[1]>>
          \o PostFlat(h, Tail(s), fuel - 1)

\* C33: iterating from begin_post() to end_post() visits every node once, after all
\* of its descendants, children first to last and roots in chain order, and ends at
\* end_post()
C33_PostOrderVisitsAll ==
  \A r \in {PostOrderFrom(heap, begin_post(heap, 1), feet(1), Fuel)} :
     /\ r.visited = PostFlat(heap, Roots(heap, 1), Fuel)
     /\ r.at = feet(1)

\* a tree with a root that has two children, one of them with a child, and a second
\* root has been walked in post-order
C33_Witness ==
  /\ last.op = "post_order"
  /\ Len(last.path) >= 5
  /\ Len(Roots(heap, 1)) >= 2
  /\ \E n \in Reach(heap, 1) :
       Len(Children(heap, n)) >= 2 /\ \E c \in Range(Children(heap, n)) :
          heap[c].first_child # NULL
  /\ last.path = PostFlat(heap, Roots(heap, 1), Fuel)

\* the childless nodes among the nodes of s, in the order of s
Leaves(h, s) == SelectSeq(s, LAMBDA x : h[x].first_child = NULL)

\* C34: iterating from begin_leaf(top) to end_leaf(top) visits the childless nodes
\* of the subtree of top (top itself when it has no children), each once and from
\* left to right, and no node outside that subtree; begin_leaf() to end_leaf() does
\* so for the whole tree
C34_LeafWalkVisitsLeaves ==
  /\ \A r \in {LeafFrom(heap, begin_leaf(heap, 1), end_leaf(1), Fuel)} :
        r.visited = Leaves(heap, PreOrder(heap, 1)) /\ r.at = feet(1)
  /\ \A top \in Reach(heap, 1) :
        \A r \in {LeafFrom(heap, begin_leaf_at(heap, top), end_leaf_at(top), Fuel)} :
           r.visited = Leaves(heap, Flat(heap, <<top>>, Fuel)) /\ r.at = top

\* the nodes of the subtree of pos that lie dp levels below pos
LevelBelow(h, pos, dp) ==
  {n \in Desc(h, pos) \cup {pos} : Depth(h, n) = Depth(h, pos) + dp}

\* C35: begin_fixed(pos, d) returns a descendant of pos exactly d levels below pos,
\* the leftmost one when walk_back is true, and throws the range error when pos has
\* no descendant at that depth; it never returns a node outside the subtree of pos
C35_BeginFixedStaysBelow ==
  \A pos \in Reach(heap, 1) : \A dp \in 0 .. MaxFixedDepth : \A walk_back \in BOOLEAN :
     \A r \in {begin_fixed(heap, pos, dp, walk_back)} :
        IF LevelBelow(heap, pos, dp) = {} THEN r = RANGE_ERROR
        ELSE /\ r \in LevelBelow(heap, pos, dp)
             /\ walk_back =>
                  \A n \in LevelBelow(heap, pos, dp) :
                     Pos(PreOrder(heap, 1), r) <= Pos(PreOrder(heap, 1), n)

\* C37: is_in_subtree(position, top) is true exactly when position is top or a
\* descendant of top, also for a top that is the last child of its parent
C37_InSubtreeExact ==
  \A it \in Reach(heap, 1) : \A top \in Reach(heap, 1) :
     is_in_subtree(heap, it, top) <=> (it = top \/ it \in Desc(heap, top))

\* the first childless node that follows the subtree of p in pre-order, feet if none
LeafAfter(h, t, p) ==
  Bind(SelectSeq(PreOrder(h, t), LAMBDA x :
          /\ h[x].first_child = NULL
          /\ x \notin Desc(h, p) \cup {p}
          /\ Pos(PreOrder(h, t), x) > Pos(PreOrder(h, t), p)), LAMBDA s :
     IF s = <<>> THEN feet(t) ELSE s[1])

\* C39: the end of the children of a node p that has children, converted to a
\* pre-order iterator is the first node after the subtree of p, to a post-order
\* iterator p itself, to a leaf iterator the first leaf after the subtree of p
C39_EndOfChildrenConverts ==
  \A p \in {x \in Reach(heap, 1) : heap[x].first_child # NULL} :
     /\ pre_order_iterator(heap, end_at(p)) = Following(heap, 1, p)
     /\ post_order_iterator(heap, end_at(p)) = p
     /\ leaf_iterator_of(heap, end_at(p)) = LeafAfter(heap, 1, p)

\* C36: iterating from begin_expanded() to end_expanded() visits in pre-order, each
\* once, exactly the visible nodes all of whose ancestors are expanded, and ends at
\* end_expanded()
C36_ExpandedWalkVisitsShown ==
  \A r \in {ExpandedFrom(heap, begin_expanded(heap, 1), feet(1), Fuel)} :
     /\ r.visited = SelectSeq(PreOrder(heap, 1), LAMBDA n :
                       /\ heap[n].visible
                       /\ \A a \in Ancestors(heap, n, Fuel) : heap[a].expanded)
     /\ r.at = feet(1)

\* a walk that has passed over a node that is not visible and over the child of a
\* collapsed node
C36_Witness ==
  /\ last.op = "expanded"
  /\ last.path # <<>>
  /\ \E n \in Reach(heap, 1) : ~heap[n].visible
  /\ \E n \in Reach(heap, 1) :
       /\ heap[n].visible /\ n \notin Range(last.path)
       /\ heap[n].parent # NULL
       /\ ~heap[heap[n].parent].expanded
  /\ Range(last.path) \subseteq {n \in Reach(heap, 1) : heap[n].visible}

\* the nodes of s and of their subtrees
BelowAll(h, s) == UNION {Below(h, x, Fuel) : x \in Range(s)}

\* C38: erase_right_siblings(n) removes exactly the right siblings of n with their
\* subtrees and leaves n the last node of its chain, erase_left_siblings(n) is the
\* mirror image, and neither frees or unlinks head or feet, also for a root n
C38_EraseSiblingsSparesSentinels ==
  Consistent =>
    \A t \in Trees : \A n \in Reach(heap, t) :
       \A s \in {Siblings(heap, t, n)} : \A i \in {Pos(Siblings(heap, t, n), n)} :
          /\ \A m \in {erase_right_siblings(M, t, n)} :
                /\ m.live = live \ BelowAll(heap, SubSeq(s, i + 1, Len(s)))
                /\ Siblings(m.h, t, n) = SubSeq(s, 1, i)
                /\ LinksOK(m.h, m.live)
          /\ \A m \in {erase_left_siblings(M, t, n)} :
                /\ m.live = live \ BelowAll(heap, SubSeq(s, 1, i - 1))
                /\ Siblings(m.h, t, n) = SubSeq(s, i, Len(s))
                /\ LinksOK(m.h, m.live)

\* C40: expand(n) on a node that is expanded already leaves the expanded count of
\* n, of every ancestor of n and of the tree as they are
C40_ExpandIdempotent ==
  ExpandedOK(heap, 1) =>
    \A n \in {x \in Reach(heap, 1) : heap[x].expanded} :
       \A m \in {expand(M, 1, n)} :
          \A x \in {head(1), n} \cup Ancestors(heap, n, Fuel) :
             m.h[x].count_expanded = heap[x].count_expanded

====
